---- MODULE Spec2Model ----
(***************************************************************************)
(* Untrusted-query safety pipeline of the clinic AI query system:          *)
(*   src/src/modules/db_manager.py     Execution Gateway                   *)
(*   src/src/modules/sql_validator.py  Security Validator                  *)
(*   src/src/modules/sql_extractor.py  Extraction Engine                   *)
(*   src/src/modules/smart_retry.py    Retry Orchestrator                  *)
(*   src/src/modules/llm_agent_v2.py   pipeline entry point                *)
(*                                                                         *)
(* Text (SQL statements, generator responses, error messages) is a         *)
(* sequence of one-character strings. A character outside ASCII, and the   *)
(* backtick, is named by its code point ("U+7981", "U+0060").              *)
(***************************************************************************)
EXTENDS Integers, Sequences, FiniteSets, TLC

----------------------------------------------------------------------------
(* Python str operations used by the code *)

LowerCase ==
  {"a","b","c","d","e","f","g","h","i","j","k","l","m",
   "n","o","p","q","r","s","t","u","v","w","x","y","z"}

UpperCase ==
  {"A","B","C","D","E","F","G","H","I","J","K","L","M",
   "N","O","P","Q","R","S","T","U","V","W","X","Y","Z"}

Digits == {"0","1","2","3","4","5","6","7","8","9"}

UpperOf ==
  ("a" :> "A") @@ ("b" :> "B") @@ ("c" :> "C") @@ ("d" :> "D") @@ ("e" :> "E") @@
  ("f" :> "F") @@ ("g" :> "G") @@ ("h" :> "H") @@ ("i" :> "I") @@ ("j" :> "J") @@
  ("k" :> "K") @@ ("l" :> "L") @@ ("m" :> "M") @@ ("n" :> "N") @@ ("o" :> "O") @@
  ("p" :> "P") @@ ("q" :> "Q") @@ ("r" :> "R") @@ ("s" :> "S") @@ ("t" :> "T") @@
  ("u" :> "U") @@ ("v" :> "V") @@ ("w" :> "W") @@ ("x" :> "X") @@ ("y" :> "Y") @@
  ("z" :> "Z")

\* str.upper()
Upper(s) == [i \in 1..Len(s) |-> IF s[i] \in LowerCase THEN UpperOf[s[i]] ELSE s[i]]

\* str.isspace() of one character, also the regex class \s
IsSpace(c) == c \in {" ", "\n", "\t", "\r"}

SetMin(S) == CHOOSE m \in S : \A n \in S : m <= n

SetMax(S) == CHOOSE m \in S : \A n \in S : m >= n

\* str.strip()
Strip(s) ==
  IF \A i \in 1..Len(s) : IsSpace(s[i]) THEN << >>
  ELSE SubSeq(s, CHOOSE i \in 1..Len(s) : ~IsSpace(s[i]) /\ \A j \in 1..(i - 1) : IsSpace(s[j]),
                 CHOOSE i \in 1..Len(s) : ~IsSpace(s[i]) /\ \A j \in (i + 1)..Len(s) : IsSpace(s[j]))

\* str.startswith(prefix)
StartsWith(s, prefix) ==
  Len(prefix) <= Len(s) /\ \A j \in 1..Len(prefix) : s[j] = prefix[j]

\* s[i:] starts with p (i is a 1-based position)
MatchAt(s, i, p) ==
  i >= 1 /\ i + Len(p) - 1 <= Len(s) /\ \A j \in 1..Len(p) : s[i + j - 1] = p[j]

\* the Python test `p in s`
Contains(s, p) == \E i \in 1..(Len(s) + 1) : MatchAt(s, i, p)

\* str.count(c) for a one-character c
Count(s, c) == Cardinality({i \in 1..Len(s) : s[i] = c})

\* F of v: gives the value v a name in F
With(v, F(_)) == F(v)

\* the elements of a sequence
Range(f) == {f[x] : x \in DOMAIN f}

RECURSIVE Cat(_)
\* "".join(parts)
Cat(parts) == IF parts = << >> THEN << >> ELSE Head(parts) \o Cat(Tail(parts))

RECURSIVE Words(_)
\* " ".join(parts)
Words(parts) ==
  IF parts = << >> THEN << >>
  ELSE IF Len(parts) = 1 THEN Head(parts)
  ELSE Head(parts) \o <<" ">> \o Words(Tail(parts))

----------------------------------------------------------------------------
(* Literals *)

S_SELECT == <<"S","E","L","E","C","T">>
S_FROM == <<"F","R","O","M">>
S_DROP == <<"D","R","O","P">>
S_DELETE == <<"D","E","L","E","T","E">>
S_UPDATE == <<"U","P","D","A","T","E">>
S_INSERT == <<"I","N","S","E","R","T">>
S_ALTER == <<"A","L","T","E","R">>
S_CREATE == <<"C","R","E","A","T","E">>
S_TRUNCATE == <<"T","R","U","N","C","A","T","E">>
S_EXEC == <<"E","X","E","C">>
S_EXECUTE == <<"E","X","E","C","U","T","E">>
S_UNION == <<"U","N","I","O","N">>
S_SCRIPT == <<"S","C","R","I","P","T">>
S_DASHDASH == <<"-","-">>
S_COMMENT_OPEN == <<"/","*">>
S_COMMENT_CLOSE == <<"*","/">>
S_SEMI_DASHDASH == <<";","-","-">>
S_WHERE == <<"W","H","E","R","E">>
S_LIMIT == <<"L","I","M","I","T">>
S_JOIN == <<"J","O","I","N">>
S_TABLE == <<"T","A","B","L","E">>
S_select == <<"s","e","l","e","c","t">>
S_from == <<"f","r","o","m">>
S_STAR == <<"*">>
S_SEMI == <<";">>
S_CO01M == <<"C","O","0","1","M">>
S_CO02M == <<"C","O","0","2","M">>
S_CO03M == <<"C","O","0","3","M">>
S_CO18H == <<"C","O","1","8","H">>
S_co01m == <<"c","o","0","1","m">>
S_CO99M == <<"C","O","9","9","M">>
S_mname == <<"m","n","a","m","e">>
S_kcstmr == <<"k","c","s","t","m","r">>
S_mpersonid == <<"m","p","e","r","s","o","n","i","d">>
S_maddr == <<"m","a","d","d","r">>
S_updated_at == <<"u","p","d","a","t","e","d","_","a","t">>
S_ONE == <<"1">>
S_TEN == <<"1","0">>
S_NL == <<"\n">>

\* db_manager.py error texts
\* "禁止使用關鍵字: "
MSG_forbidden_keyword_db ==
  <<"U+7981","U+6B62","U+4F7F","U+7528","U+95DC","U+9375","U+5B57",":"," ">>
\* "只允許SELECT查詢"
MSG_only_select_db == <<"U+53EA","U+5141","U+8A31","S","E","L","E","C","T","U+67E5","U+8A62">>
\* "不允許多重查詢"
MSG_multi_query_db == <<"U+4E0D","U+5141","U+8A31","U+591A","U+91CD","U+67E5","U+8A62">>
\* "不允許SQL註釋"
MSG_comment_db == <<"U+4E0D","U+5141","U+8A31","S","Q","L","U+8A3B","U+91CB">>
\* "SQL查詢不安全: "
MSG_unsafe_prefix == <<"S","Q","L","U+67E5","U+8A62","U+4E0D","U+5B89","U+5168",":"," ">>
\* "查詢處理失敗: "
MSG_processing_failed == <<"U+67E5","U+8A62","U+8655","U+7406","U+5931","U+6557",":"," ">>
\* pandas.read_sql_query: "Execution failed on sql '"
MSG_pandas_prefix ==
  <<"E","x","e","c","u","t","i","o","n"," ","f","a","i","l","e","d"," ","o","n"," ","s","q","l",
    " ","'">>
MSG_pandas_sep == <<"'",":"," ">>
\* sqlite3 error texts
ERR_no_such_table == <<"n","o"," ","s","u","c","h"," ","t","a","b","l","e">>
ERR_syntax == <<"s","y","n","t","a","x"," ","e","r","r","o","r">>
ERR_locked == <<"d","a","t","a","b","a","s","e"," ","i","s"," ","l","o","c","k","e","d">>

----------------------------------------------------------------------------
(* Bounds of the model *)

\* config['cache_size'] (db_manager.py:68), kept small
cache_size == 1

\* config['max_results'] (db_manager.py:449), kept small
max_results == 2

\* the largest number of rows storage produces for one statement
MaxStorageRows == 3

\* the number of execute_query calls made by direct callers of the gateway
MaxCalls == 3

----------------------------------------------------------------------------
(* State *)

VARIABLES
  query_cache,   \* DatabaseManager._query_cache: query hash -> rows
  stats,         \* DatabaseManager.stats
  query_log,     \* the query_log table, in insertion order
  ncalls,        \* execute_query calls made so far by direct callers
  lastCall,      \* what the latest execute_query call did and returned
  threads,       \* the execute_query calls of concurrent callers: position and locals
  stored,        \* the number of rows the table CO01M holds in storage
  fkOrder,       \* the iteration order of forbidden_keywords in this process
  validation,    \* the latest validate_sql call: its argument and its result
  extraction,    \* the latest extract_sql call: its argument, its result, the methods' results
  backoff,       \* a retry strategy and the delays _calculate_delay gave under it
  retry,         \* execute_with_retry: its position, its locals, its context, what it did
  agent,         \* ModernLLMQueryAgent: its stats, the attempts and the result of its query
  queryAgent     \* LLMQueryAgent: its stats, its latest _validate_and_enhance_sql and result

gatewayVars == <<query_cache, stats, query_log, ncalls, lastCall, threads, stored>>
validatorVars == <<fkOrder, validation>>
extractorVars == <<extraction>>
retryVars == <<retry, backoff>>
agentVars == <<agent, queryAgent>>
vars == <<gatewayVars, validatorVars, extractorVars, retryVars, agentVars>>

----------------------------------------------------------------------------
(* sqlparse, as used by sql_validator.py: sqlparse.parse(sql)[0],             *)
(* Statement.flatten() and Statement.tokens. The lexer rules are those of     *)
(* sqlparse's SQL_REGEX, tried in its order at each position; rules that only *)
(* match characters no modelled text contains are left out.                   *)

\* the characters outside ASCII that the modelled texts contain (all are letters)
CJK == {"U+67E5", "U+8A62"}

\* the regex class \w
IsWordChar(c) == c \in LowerCase \cup UpperCase \cup Digits \cup {"_"} \cup CJK

\* the regex class [A-Z] under re.IGNORECASE
IsLetter(c) == c \in LowerCase \cup UpperCase

IsDigit(c) == c \in Digits

\* the last index of the longest run s[i..] whose characters all satisfy P (i-1: none)
RunEnd(s, i, P(_)) ==
  LET bad == {k \in i..Len(s) : ~P(s[k])}
  IN  IF bad = {} THEN Len(s) ELSE SetMin(bad) - 1

\* \b after a word that ends at index e
BoundaryAfter(s, e) == ~(e + 1 <= Len(s) /\ IsWordChar(s[e + 1]))

\* the end index of `word\b` matched at i in the upper-cased text u, or 0
WordEnd(u, i, word) ==
  IF MatchAt(u, i, word) /\ BoundaryAfter(u, i + Len(word) - 1)
    THEN i + Len(word) - 1 ELSE 0

RECURSIVE PhraseEnd(_, _, _)
\* the end index of `w1\s+w2\s+...wn\b` matched at i in u, or 0
PhraseEnd(u, i, phrase) ==
  IF Len(phrase) = 1 THEN WordEnd(u, i, phrase[1])
  ELSE IF ~MatchAt(u, i, phrase[1]) THEN 0
  ELSE LET a == i + Len(phrase[1])
           b == RunEnd(u, a, IsSpace)
       IN  IF b < a THEN 0 ELSE PhraseEnd(u, b + 1, Tail(phrase))

\* the end index of the first phrase of the list that matches at i, or 0
FirstPhraseEnd(u, i, phrases) ==
  LET ok == {k \in 1..Len(phrases) : PhraseEnd(u, i, phrases[k]) > 0}
  IN  IF ok = {} THEN 0 ELSE PhraseEnd(u, i, phrases[SetMin(ok)])

\* (--|# ).*?(\r\n|\r|\n|$)
CommentSingleEnd(s, i) ==
  IF ~(MatchAt(s, i, <<"-","-">>) \/ MatchAt(s, i, <<"#"," ">>)) THEN 0
  ELSE LET nl == {k \in (i + 2)..Len(s) : s[k] \in {"\n", "\r"}}
       IN  IF nl = {} THEN Len(s)
           ELSE IF MatchAt(s, SetMin(nl), <<"\r","\n">>) THEN SetMin(nl) + 1
           ELSE SetMin(nl)

\* /\*[\s\S]*?\*/
CommentMultiEnd(s, i) ==
  IF ~MatchAt(s, i, <<"/","*">>) THEN 0
  ELSE LET close == {k \in (i + 2)..Len(s) : MatchAt(s, k, <<"*","/">>)}
       IN  IF close = {} THEN 0 ELSE SetMin(close) + 1

\* every maximal run of q within s[a..b] has even length
EvenRuns(s, a, b, q) ==
  \A k \in a..b :
    (s[k] = q /\ (k = b \/ s[k + 1] # q)) =>
      LET before == {r \in a..k : s[r] # q}
          start == IF before = {} THEN a ELSE SetMax(before) + 1
      IN  (k - start + 1) % 2 = 0

\* q(qq|[^q])*q matched at i: the end index, or 0
QuotedEnd(s, i, q) ==
  IF ~(i <= Len(s) /\ s[i] = q) THEN 0
  ELSE LET ends == {j \in (i + 1)..Len(s) : s[j] = q /\ EvenRuns(s, i + 1, j - 1, q)}
       IN  IF ends = {} THEN 0 ELSE SetMax(ends)

\* no [_A-Z] follows index x: the lookahead (?![_A-Z])
ClearAfter(s, x) == ~(x + 1 <= Len(s) /\ (IsLetter(s[x + 1]) \/ s[x + 1] = "_"))

\* (?![_A-Z])-?\d+(?![_A-Z]): the end index, or 0
IntegerEnd(s, i) ==
  LET d == IF s[i] = "-" THEN i + 1 ELSE i
      e == RunEnd(s, d, IsDigit)
  IN  IF e < d THEN 0
      ELSE IF ClearAfter(s, e) THEN e
      ELSE IF e - 1 >= d THEN e - 1
      ELSE 0

\* (?![_A-Z])-?\d+\.\d*(?![_A-Z]): the end index, or 0
FloatEnd(s, i) ==
  LET d == IF s[i] = "-" THEN i + 1 ELSE i
      e == RunEnd(s, d, IsDigit)
      f == RunEnd(s, e + 2, IsDigit)
  IN  IF e < d \/ ~(e + 1 <= Len(s) /\ s[e + 1] = ".") THEN 0
      ELSE IF ClearAfter(s, f) THEN f
      ELSE IF f - 1 >= e + 1 THEN f - 1
      ELSE 0

S_AS == <<"A","S">>
S_IN == <<"I","N">>
S_ON == <<"O","N">>
S_OR == <<"O","R">>
S_BY == <<"B","Y">>
S_IS == <<"I","S">>
S_AND == <<"A","N","D">>
S_NOT == <<"N","O","T">>
S_ALL == <<"A","L","L">>
S_SET == <<"S","E","T">>
S_END == <<"E","N","D">>
S_ASC == <<"A","S","C">>
S_DESC == <<"D","E","S","C">>
S_CASE == <<"C","A","S","E">>
S_WHEN == <<"W","H","E","N">>
S_THEN == <<"T","H","E","N">>
S_ELSE == <<"E","L","S","E">>
S_NULL == <<"N","U","L","L">>
S_LIKE == <<"L","I","K","E">>
S_INTO == <<"I","N","T","O">>
S_LEFT == <<"L","E","F","T">>
S_FULL == <<"F","U","L","L">>
S_RIGHT == <<"R","I","G","H","T">>
S_INNER == <<"I","N","N","E","R">>
S_OUTER == <<"O","U","T","E","R">>
S_CROSS == <<"C","R","O","S","S">>
S_GROUP == <<"G","R","O","U","P">>
S_ORDER == <<"O","R","D","E","R">>
S_USING == <<"U","S","I","N","G">>
S_MERGE == <<"M","E","R","G","E">>
S_GRANT == <<"G","R","A","N","T">>
S_VALUES == <<"V","A","L","U","E","S">>
S_HAVING == <<"H","A","V","I","N","G">>
S_OFFSET == <<"O","F","F","S","E","T">>
S_EXISTS == <<"E","X","I","S","T","S">>
S_EXCEPT == <<"E","X","C","E","P","T">>
S_REVOKE == <<"R","E","V","O","K","E">>
S_COMMIT == <<"C","O","M","M","I","T">>
S_NATURAL == <<"N","A","T","U","R","A","L">>
S_BETWEEN == <<"B","E","T","W","E","E","N">>
S_REPLACE == <<"R","E","P","L","A","C","E">>
S_DISTINCT == <<"D","I","S","T","I","N","C","T">>
S_ROLLBACK == <<"R","O","L","L","B","A","C","K">>
S_FUNCTION == <<"F","U","N","C","T","I","O","N">>
S_PROCEDURE == <<"P","R","O","C","E","D","U","R","E">>
S_RETURNING == <<"R","E","T","U","R","N","I","N","G">>
S_TRANSACTION == <<"T","R","A","N","S","A","C","T","I","O","N">>

\* sqlparse.keywords: the words lexed into Token.Keyword.DML
KEYWORDS_DML == {S_SELECT, S_INSERT, S_DELETE, S_UPDATE, S_REPLACE, S_MERGE, S_COMMIT,
                 S_ROLLBACK}

\* the words lexed into Token.Keyword.DDL
KEYWORDS_DDL == {S_DROP, S_CREATE, S_ALTER}

\* the words lexed into Token.Keyword.Order
KEYWORDS_ORDER == {S_ASC, S_DESC}

\* the words lexed into Token.Keyword itself
KEYWORDS_PLAIN ==
  { S_FROM, S_WHERE, S_JOIN, S_INNER, S_LEFT, S_RIGHT, S_OUTER, S_FULL, S_CROSS, S_NATURAL,
    S_ON, S_AND, S_OR, S_NOT, S_IN, S_BETWEEN, S_IS, S_NULL, S_AS, S_BY, S_GROUP, S_ORDER,
    S_HAVING, S_LIMIT, S_OFFSET, S_UNION, S_ALL, S_DISTINCT, S_TABLE, S_INTO, S_VALUES,
    S_SET, S_TRUNCATE, S_EXEC, S_EXECUTE, S_CASE, S_WHEN, S_THEN, S_ELSE, S_END, S_EXISTS,
    S_EXCEPT, S_USING, S_GRANT, S_REVOKE, S_FUNCTION, S_PROCEDURE, S_RETURNING,
    S_TRANSACTION }

\* sqlparse.keywords.is_keyword
is_keyword(value) ==
  LET val == Upper(value)
  IN  IF val \in KEYWORDS_DML THEN "Keyword.DML"
      ELSE IF val \in KEYWORDS_DDL THEN "Keyword.DDL"
      ELSE IF val \in KEYWORDS_ORDER THEN "Keyword.Order"
      ELSE IF val \in KEYWORDS_PLAIN THEN "Keyword"
      ELSE "Name"

\* the JOIN rule: ((LEFT|RIGHT|FULL)\s+)?((INNER|OUTER)\s+)?JOIN\b, (CROSS|NATURAL)\s+JOIN\b
JoinPhrases ==
  << <<S_LEFT, S_INNER, S_JOIN>>, <<S_LEFT, S_OUTER, S_JOIN>>, <<S_LEFT, S_JOIN>>,
     <<S_RIGHT, S_INNER, S_JOIN>>, <<S_RIGHT, S_OUTER, S_JOIN>>, <<S_RIGHT, S_JOIN>>,
     <<S_FULL, S_INNER, S_JOIN>>, <<S_FULL, S_OUTER, S_JOIN>>, <<S_FULL, S_JOIN>>,
     <<S_INNER, S_JOIN>>, <<S_OUTER, S_JOIN>>, <<S_CROSS, S_JOIN>>, <<S_NATURAL, S_JOIN>>,
     <<S_JOIN>> >>

\* the other rules that lex several words into one Token.Keyword
KeywordPhrases ==
  << <<S_NOT, S_NULL>>, <<S_UNION, S_ALL>>, <<S_GROUP, S_BY>>, <<S_ORDER, S_BY>> >>

\* (NOT\s+)?LIKE\b, lexed into Token.Operator.Comparison
LikePhrases == << <<S_NOT, S_LIKE>>, <<S_LIKE>> >>

\* (CASE|IN|VALUES|USING|FROM|AS)\b
EarlyKeywords == << <<S_CASE>>, <<S_IN>>, <<S_VALUES>>, <<S_USING>>, <<S_FROM>>, <<S_AS>> >>

\* the backtick character
BACKTICK == "U+0060"

Tok(ttype, s, i, e) == [ttype |-> ttype, value |-> SubSeq(s, i, e)]

\* the token the lexer produces at index i of s (u is s upper-cased)
TokenAt(s, u, i) ==
  LET c == s[i]
      w == RunEnd(s, i, IsWordChar)
      spaces == RunEnd(s, w + 1, IsSpace)
      wordRest(x) == IsWordChar(x) \/ x \in {"$", "#"}
  IN  IF CommentSingleEnd(s, i) > 0 THEN Tok("Comment.Single", s, i, CommentSingleEnd(s, i))
      ELSE IF CommentMultiEnd(s, i) > 0
        THEN Tok("Comment.Multiline", s, i, CommentMultiEnd(s, i))
      ELSE IF MatchAt(s, i, <<"\r","\n">>) THEN Tok("Newline", s, i, i + 1)
      ELSE IF c \in {"\n", "\r"} THEN Tok("Newline", s, i, i)
      ELSE IF IsSpace(c) THEN Tok("Whitespace", s, i, i)
      ELSE IF MatchAt(s, i, <<":","=">>) THEN Tok("Assignment", s, i, i + 1)
      ELSE IF MatchAt(s, i, <<":",":">>) THEN Tok("Punctuation", s, i, i + 1)
      ELSE IF c = "*" THEN Tok("Wildcard", s, i, i)
      ELSE IF QuotedEnd(s, i, BACKTICK) > 0 THEN Tok("Name", s, i, QuotedEnd(s, i, BACKTICK))
      ELSE IF FirstPhraseEnd(u, i, EarlyKeywords) > 0
        THEN Tok("Keyword", s, i, FirstPhraseEnd(u, i, EarlyKeywords))
      ELSE IF IsLetter(c) /\ spaces + 1 <= Len(s) /\ s[spaces + 1] = "."
        THEN Tok("Name", s, i, w)
      ELSE IF IsLetter(c) /\ i > 1 /\ s[i - 1] = "." THEN Tok("Name", s, i, w)
      ELSE IF IsLetter(c) /\ w + 1 <= Len(s) /\ s[w + 1] = "(" THEN Tok("Name", s, i, w)
      ELSE IF (IsDigit(c) \/ c = "-") /\ FloatEnd(s, i) > 0
        THEN Tok("Number.Float", s, i, FloatEnd(s, i))
      ELSE IF (IsDigit(c) \/ c = "-") /\ IntegerEnd(s, i) > 0
        THEN Tok("Number.Integer", s, i, IntegerEnd(s, i))
      ELSE IF QuotedEnd(s, i, "'") > 0 THEN Tok("String.Single", s, i, QuotedEnd(s, i, "'"))
      ELSE IF QuotedEnd(s, i, "\"") > 0 THEN Tok("String.Symbol", s, i, QuotedEnd(s, i, "\""))
      ELSE IF FirstPhraseEnd(u, i, JoinPhrases) > 0
        THEN Tok("Keyword", s, i, FirstPhraseEnd(u, i, JoinPhrases))
      ELSE IF FirstPhraseEnd(u, i, KeywordPhrases) > 0
        THEN Tok("Keyword", s, i, FirstPhraseEnd(u, i, KeywordPhrases))
      ELSE IF WordEnd(u, i, S_CREATE) > 0 THEN Tok("Keyword.DDL", s, i, WordEnd(u, i, S_CREATE))
      ELSE IF FirstPhraseEnd(u, i, LikePhrases) > 0
        THEN Tok("Operator.Comparison", s, i, FirstPhraseEnd(u, i, LikePhrases))
      ELSE IF IsLetter(c) \/ IsDigit(c) \/ c = "_"
        THEN LET e == RunEnd(s, i + 1, wordRest)
             IN  Tok(is_keyword(SubSeq(s, i, e)), s, i, e)
      ELSE IF c \in {";", ":", "(", ")", "[", "]", ",", "."} THEN Tok("Punctuation", s, i, i)
      ELSE IF c \in {"<", ">", "=", "~", "!"}
        THEN Tok("Operator.Comparison", s, i,
                 RunEnd(s, i, LAMBDA x : x \in {"<", ">", "=", "~", "!"}))
      ELSE IF c \in {"+", "/", "@", "#", "%", "^", "&", "|", "-"}
        THEN Tok("Operator", s, i,
                 RunEnd(s, i, LAMBDA x : x \in {"+", "/", "@", "#", "%", "^", "&", "|", "-"}))
      ELSE Tok("Error", s, i, i)

RECURSIVE LexFrom(_, _, _)
LexFrom(s, u, i) ==
  IF i > Len(s) THEN << >>
  ELSE LET t == TokenAt(s, u, i)
       IN  <<t>> \o LexFrom(s, u, i + Len(t.value))

\* sqlparse.lexer.tokenize: the tokens of s in order, as [ttype, value]
Lex(s) == LexFrom(s, Upper(s), 1)

\* the number of "(" minus the number of ")" among the tokens before index k
Depth(tokens, k) ==
  Cardinality({j \in 1..(k - 1) : tokens[j].ttype = "Punctuation" /\ tokens[j].value = <<"(">>})
    - Cardinality({j \in 1..(k - 1) :
                     tokens[j].ttype = "Punctuation" /\ tokens[j].value = <<")">>})

\* sqlparse.parse(sql)[0]: the tokens of the first statement, which ends with the
\* first ";" outside parentheses and the spaces and line comments that follow it
FirstStatement(tokens) ==
  LET ends == {k \in 1..Len(tokens) :
                 /\ tokens[k].ttype = "Punctuation"
                 /\ tokens[k].value = <<";">>
                 /\ Depth(tokens, k) <= 0}
      e == SetMin(ends)
      trail == {m \in e..Len(tokens) :
                  \A j \in (e + 1)..m : tokens[j].ttype \in {"Whitespace", "Comment.Single"}}
  IN  IF ends = {} THEN tokens ELSE SubSeq(tokens, 1, SetMax(trail))

\* Statement.flatten() of sqlparse.parse(sql)[0]
Parse(sql) == FirstStatement(Lex(sql))

\* str(parsed)
TextOf(tokens) == Cat([k \in 1..Len(tokens) |-> tokens[k].value])

\* the keywords that close a Where group (sqlparse.sql.Where.M_CLOSE)
WhereClose ==
  { Words(<<S_ORDER, S_BY>>), Words(<<S_GROUP, S_BY>>), S_LIMIT, S_UNION,
    Words(<<S_UNION, S_ALL>>), S_EXCEPT, S_HAVING, S_RETURNING, S_INTO }

IsKeywordToken(t, word) == t.ttype = "Keyword" /\ Upper(t.value) = word

\* token k lies in a Where group of the statement
InWhere(tokens, k) ==
  \E j \in 1..k :
    /\ IsKeywordToken(tokens[j], S_WHERE)
    /\ Depth(tokens, j) = Depth(tokens, k)
    /\ \A m \in (j + 1)..k :
         ~(tokens[m].ttype = "Keyword" /\ Depth(tokens, m) = Depth(tokens, j)
             /\ Upper(tokens[m].value) \in WhereClose)

\* token k is itself an element of Statement.tokens, not wrapped in a group
\* (Parenthesis, Where, Identifier, IdentifierList, Comparison)
IsTopLevel(tokens, k) ==
  /\ Depth(tokens, k) = 0
  /\ ~InWhere(tokens, k)
  /\ tokens[k].ttype \notin {"Name", "String.Symbol"}
  /\ ~IsKeywordToken(tokens[k], S_AS)

----------------------------------------------------------------------------
(* Security Validator: sql_validator.py *)

LowerOf(c) == CHOOSE l \in LowerCase : UpperOf[l] = c

\* str.lower()
Lower(s) == [i \in 1..Len(s) |-> IF s[i] \in UpperCase THEN LowerOf(s[i]) ELSE s[i]]

\* "SQL查詢為空"
MSG_empty_sql == <<"S","Q","L","U+67E5","U+8A62","U+70BA","U+7A7A">>
\* "只允許SELECT查詢操作"
MSG_only_select ==
  <<"U+53EA","U+5141","U+8A31","S","E","L","E","C","T","U+67E5","U+8A62","U+64CD","U+4F5C">>
\* "包含禁止的關鍵字: "
MSG_forbidden_keyword ==
  <<"U+5305","U+542B","U+7981","U+6B62","U+7684","U+95DC","U+9375","U+5B57",":"," ">>
\* "使用了禁止的關鍵字: "
MSG_forbidden_keyword_ast ==
  <<"U+4F7F","U+7528","U+4E86","U+7981","U+6B62","U+7684","U+95DC","U+9375","U+5B57",":"," ">>
\* "不允許存取資料表: "
MSG_invalid_table ==
  <<"U+4E0D","U+5141","U+8A31","U+5B58","U+53D6","U+8CC7","U+6599","U+8868",":"," ">>
\* "嘗試存取敏感欄位: "
MSG_sensitive == <<"U+5617","U+8A66","U+5B58","U+53D6","U+654F","U+611F","U+6B04","U+4F4D",":"," ">>

\* SQLSecurityValidator.allowed_tables
allowed_tables == {S_CO01M, S_CO02M, S_CO03M, S_CO18H}

\* SQLSecurityValidator.forbidden_keywords. It is a Python set of strings, whose
\* iteration order differs from process to process: the validator is given the
\* order as fk, a sequence; only the keyword named in a message depends on it.
forbidden_keywords ==
  << S_DROP, S_DELETE, S_UPDATE, S_INSERT, S_ALTER, S_CREATE, S_TRUNCATE,
     S_EXEC, S_EXECUTE, S_SCRIPT, S_PROCEDURE, S_FUNCTION,
     S_GRANT, S_REVOKE, S_COMMIT, S_ROLLBACK, S_TRANSACTION >>

Reverse(q) == [k \in 1..Len(q) |-> q[Len(q) + 1 - k]]

\* the iteration orders of forbidden_keywords that the model tries
ForbiddenOrders == {forbidden_keywords, Reverse(forbidden_keywords)}

\* SQLSecurityValidator.sensitive_fields
sensitive_fields == {S_mpersonid, S_maddr}

\* SQLValidationResult
ValidationResult(is_valid, is_safe, error_type, error_message, suggestions, parsed_sql) ==
  [is_valid |-> is_valid, is_safe |-> is_safe, error_type |-> error_type,
   error_message |-> error_message, suggestions |-> suggestions, parsed_sql |-> parsed_sql]

ValidationOk(suggestions) == ValidationResult(TRUE, TRUE, "None", << >>, suggestions, "None")

ValidationFailed(error_type, error_message, suggestions) ==
  ValidationResult(FALSE, FALSE, error_type, error_message, suggestions, "None")

\* SQLSecurityValidator._basic_validation
basic_validation(sql, fk) ==
  LET sql_clean == Upper(Strip(sql))
      hits == {k \in 1..Len(fk) : Contains(sql_clean, fk[k])}
  IN  IF Strip(sql) = << >>
        THEN ValidationFailed("empty_sql", MSG_empty_sql, << >>)
      ELSE IF ~StartsWith(sql_clean, S_SELECT)
        THEN ValidationFailed("invalid_operation", MSG_only_select, <<"use_select">>)
      ELSE IF hits # {}
        THEN ValidationFailed("forbidden_keyword", MSG_forbidden_keyword \o fk[SetMin(hits)],
                              <<"remove_dangerous_keywords">>)
      ELSE ValidationOk(<< >>)

\* SQLSecurityValidator._analyze_ast_security
analyze_ast_security(parsed) ==
  LET bad == {k \in 1..Len(parsed) :
                /\ parsed[k].ttype = "Keyword"
                /\ Upper(parsed[k].value) \in Range(forbidden_keywords)}
  IN  IF bad # {}
        THEN ValidationFailed("forbidden_keyword",
                              MSG_forbidden_keyword_ast \o Upper(parsed[SetMin(bad)].value), << >>)
      ELSE ValidationOk(<< >>)

\* the regex class [A-Za-z0-9_]
IsAsciiWordChar(c) == c \in LowerCase \cup UpperCase \cup Digits \cup {"_"}

RECURSIVE FromNames(_, _, _)
\* re.findall(r'FROM\s+([A-Za-z][A-Za-z0-9_]*)', s, re.IGNORECASE) from index i on
FromNames(s, u, i) ==
  IF i > Len(s) THEN << >>
  ELSE LET b == RunEnd(s, i + 4, IsSpace)
           e == RunEnd(s, b + 1, IsAsciiWordChar)
       IN  IF MatchAt(u, i, S_FROM) /\ b >= i + 4 /\ b + 1 <= Len(s) /\ IsLetter(s[b + 1])
             THEN <<SubSeq(s, b + 1, e)>> \o FromNames(s, u, e + 1)
             ELSE FromNames(s, u, i + 1)

\* SQLSecurityValidator._extract_table_names
extract_table_names(parsed) ==
  LET froms == {k \in 1..Len(parsed) : IsKeywordToken(parsed[k], S_FROM)}
      from_found == SetMin(froms)
      ends(k) == /\ parsed[k].ttype = "Keyword"
                 /\ Upper(parsed[k].value) \in {S_WHERE, S_ORDER, S_GROUP, S_HAVING, S_LIMIT, S_JOIN}
      table(k) == /\ parsed[k].ttype = "Name"
                  /\ Strip(parsed[k].value) # << >>
                  /\ Upper(Strip(parsed[k].value)) \in allowed_tables
      stops == IF froms = {} THEN {}
               ELSE {k \in (from_found + 1)..Len(parsed) : ends(k) \/ table(k)}
      tables == IF stops # {} /\ table(SetMin(stops))
                  THEN {Strip(parsed[SetMin(stops)].value)} ELSE {}
      sql_str == TextOf(parsed)
      from_matches == FromNames(sql_str, Upper(sql_str), 1)
      allowed == {k \in 1..Len(from_matches) : Upper(from_matches[k]) \in allowed_tables}
  IN  IF tables # {} THEN tables
      ELSE IF allowed # {} THEN {from_matches[SetMin(allowed)]}
      ELSE {}

\* SQLSecurityValidator._has_limit_clause
has_limit_clause(parsed) ==
  \E k \in 1..Len(parsed) : IsTopLevel(parsed, k) /\ IsKeywordToken(parsed[k], S_LIMIT)

\* SQLSecurityValidator._analyze_sql_structure
analyze_sql_structure(parsed) ==
  LET tables == extract_table_names(parsed)
      denied == {t \in tables : Strip(t) # << >> /\ Upper(t) \notin allowed_tables}
  IN  IF denied # {}
        THEN ValidationFailed("invalid_table", MSG_invalid_table \o (CHOOSE t \in denied : TRUE),
                              <<"use_allowed_tables">>)
      ELSE ValidationOk(IF has_limit_clause(parsed) THEN << >> ELSE <<"add_limit">>)

\* the index of the next token after k that is not whitespace, 0 if none
NextToken(parsed, k) ==
  LET later == {j \in (k + 1)..Len(parsed) : parsed[j].ttype \notin {"Whitespace", "Newline"}}
  IN  IF later = {} THEN 0 ELSE SetMin(later)

\* SQLSecurityValidator._extract_field_names: the loop over parsed.tokens waits
\* for a token of type Keyword whose text is SELECT, and collects the name of
\* every identifier from there to the FROM keyword
extract_field_names(parsed) ==
  LET selects == {k \in 1..Len(parsed) :
                    IsTopLevel(parsed, k) /\ IsKeywordToken(parsed[k], S_SELECT)}
      select_found == SetMin(selects)
      froms == {k \in (select_found + 1)..Len(parsed) :
                  IsTopLevel(parsed, k) /\ IsKeywordToken(parsed[k], S_FROM)}
      last == IF froms = {} THEN Len(parsed) ELSE SetMin(froms) - 1
      named(k) ==
        LET n == NextToken(parsed, k)
        IN  /\ parsed[k].ttype = "Name"
            /\ ~InWhere(parsed, k)
            /\ n # 0 => /\ parsed[n].value # <<".">>
                        /\ parsed[n].ttype # "Name"
                        /\ ~IsKeywordToken(parsed[n], S_AS)
  IN  IF selects = {} THEN {}
      ELSE {parsed[k].value : k \in {j \in (select_found + 1)..last : named(j)}}

\* SQLSecurityValidator._check_sensitive_data_access
check_sensitive_data_access(parsed) ==
  LET fields == extract_field_names(parsed)
      accessed_sensitive_fields == {f \in fields : Lower(f) \in sensitive_fields}
  IN  IF accessed_sensitive_fields # {}
        THEN ValidationFailed("sensitive_data_access",
                              MSG_sensitive \o (CHOOSE f \in accessed_sensitive_fields : TRUE),
                              <<"avoid_sensitive_fields">>)
      ELSE ValidationOk(<< >>)

\* SQLSecurityValidator._extract_sql_metadata
extract_sql_metadata(parsed) ==
  [tables |-> extract_table_names(parsed),
   fields |-> extract_field_names(parsed),
   has_limit |-> has_limit_clause(parsed),
   has_where |-> \E k \in 1..Len(parsed) :
                   IsTopLevel(parsed, k) /\ IsKeywordToken(parsed[k], S_WHERE),
   has_order |-> \E k \in 1..Len(parsed) :
                   IsTopLevel(parsed, k) /\ IsKeywordToken(parsed[k], S_ORDER)]

\* validate_sql from the parsed statement on: the AST analysis, the structure
\* analysis and the sensitive data check in turn
validate_parsed(parsed) ==
  With(analyze_ast_security(parsed),
    LAMBDA ast_result :
      IF ~ast_result.is_safe THEN ast_result
      ELSE With(analyze_sql_structure(parsed),
        LAMBDA structure_result :
          IF ~structure_result.is_valid THEN structure_result
          ELSE With(check_sensitive_data_access(parsed),
            LAMBDA sensitivity_result :
              IF ~sensitivity_result.is_safe THEN sensitivity_result
              ELSE ValidationResult(TRUE, TRUE, "None", << >>, << >>,
                                    extract_sql_metadata(parsed)))))

\* SQLSecurityValidator.validate_sql, fk the iteration order of forbidden_keywords
validate_sql(sql, fk) ==
  With(basic_validation(sql, fk),
       LAMBDA basic_result : IF ~basic_result.is_valid THEN basic_result
                             ELSE validate_parsed(Parse(sql)))

\* the select lists, tables and clauses the validated statements are built from
Comma == <<",">>
Dot == <<".">>
SelectLists ==
  { S_STAR, S_mname, S_mpersonid, S_maddr, S_updated_at,
    S_mname \o Comma \o <<" ">> \o S_mpersonid,
    S_CO01M \o Dot \o S_maddr }
FromTables == {S_CO01M, S_co01m, S_CO18H, S_CO99M}
Tails ==
  { << >>,
    <<" ">> \o Words(<<S_LIMIT, S_TEN>>),
    S_SEMI,
    S_SEMI \o <<" ">> \o Words(<<S_SELECT, S_mname, S_FROM, S_CO99M>>),
    <<" ">> \o Words(<<S_JOIN, S_CO99M, S_ON, S_ONE>>),
    <<" ">> \o Words(<<S_WHERE, S_mname, S_IN>>) \o <<" ", "(">>
      \o Words(<<S_SELECT, S_mname, S_FROM, S_CO02M, S_LIMIT, S_ONE>>) \o <<")">> }

\* the texts validate_sql is called with
ValidatorSqls ==
  { Words(<<S_SELECT, l, S_FROM, t>>) \o tail : l \in SelectLists, t \in FromTables, tail \in Tails }
    \cup { << >>, <<" ">>, Words(<<S_DROP, S_TABLE, S_CO01M>>), Words(<<S_SELECT, S_ONE>>),
           Words(<<S_SELECT, S_STAR, S_FROM, S_CO01M, S_UNION, S_SELECT, S_STAR, S_FROM, S_CO99M>>),
           Words(<<S_SELECT, S_mname, S_FROM, S_CO01M, S_UNION, S_SELECT, S_mname, S_FROM, S_CO02M>>),
           Words(<<S_SELECT, S_STAR, S_FROM, S_CO01M>>) \o S_SEMI \o S_SEMI }

\* validate_sql over the modelled texts, for each order of the forbidden keywords
ValidateSqlTable ==
  [fk \in ForbiddenOrders |-> [sql \in ValidatorSqls |-> validate_sql(sql, fk)]]

\* no validate_sql call has been made
NoValidation == [called |-> FALSE, sql |-> << >>, result |-> ValidationOk(<< >>)]

\* SQLSecurityValidator.__init__
ValidatorInit == fkOrder \in ForbiddenOrders /\ validation = NoValidation

\* a caller runs validate_sql
ValidateSql ==
  \E sql \in ValidatorSqls :
    /\ validation' = [called |-> TRUE, sql |-> sql, result |-> ValidateSqlTable[fkOrder][sql]]
    /\ UNCHANGED fkOrder

----------------------------------------------------------------------------
(* Extraction Engine: sql_extractor.py. Every regular expression is written *)
(* out as the match Python's re module finds for it at a start position i:  *)
(* [ok, from, to, stop], the captured group being s[from..to] and the match *)
(* ending at stop. u is the upper-cased text, used where re.IGNORECASE      *)
(* makes a literal match in either case.                                    *)

NoMatch == [ok |-> FALSE, from |-> 0, to |-> 0, stop |-> 0]

Match(from, to, stop) == [ok |-> TRUE, from |-> from, to |-> to, stop |-> stop]

\* s[i], or "" past the end of s
At(s, i) == IF i \in 1..Len(s) THEN s[i] ELSE ""

SkipSpace(s, i) == IF i > Len(s) THEN i ELSE RunEnd(s, i, IsSpace) + 1

\* the first index k >= i at which p occurs in s, or 0
Find(s, p, i) ==
  With({k \in i..(Len(s) + 1 - Len(p)) : MatchAt(s, k, p)},
       LAMBDA at : IF at = {} THEN 0 ELSE SetMin(at))

\* the start of the run of whitespace that ends just before index f, not below lo
TrailStart(s, lo, f) ==
  SetMin({e \in lo..f : \A k \in e..(f - 1) : IsSpace(s[k])})

FENCE == <<BACKTICK, BACKTICK, BACKTICK>>
S_SQL == <<"S","Q","L">>

\* a code block whose group starts at q and has at least min characters: the
\* group runs up to the whitespace before the next fence
CodeBlock(s, q, min) ==
  With(Find(s, FENCE, q + min),
       LAMBDA f : IF f > 0 THEN Match(q, TrailStart(s, q + min, f) - 1, f + 2) ELSE NoMatch)

\* r'```sql\s*(.*?)\s*```'
sql_code_block(s, u, i) ==
  IF MatchAt(u, i, FENCE \o S_SQL) THEN CodeBlock(s, RunEnd(s, i + 6, IsSpace) + 1, 0)
  ELSE NoMatch

\* r'```\s*(SELECT.*?)\s*```'
generic_code_block(s, u, i) ==
  IF MatchAt(s, i, FENCE) /\ MatchAt(u, RunEnd(s, i + 3, IsSpace) + 1, S_SELECT)
    THEN CodeBlock(s, RunEnd(s, i + 3, IsSpace) + 1, 6)
  ELSE NoMatch

\* the end index of \s+\d+ matched at e, or 0
SpaceDigitsEnd(s, e) ==
  With(RunEnd(s, e, IsSpace),
       LAMBDA w : IF w >= e /\ RunEnd(s, w + 1, IsDigit) >= w + 1
                    THEN RunEnd(s, w + 1, IsDigit) ELSE 0)

\* the end index of LIMIT\s+\d+ matched at e, or 0
LimitEnd(s, u, e) == IF MatchAt(u, e, S_LIMIT) THEN SpaceDigitsEnd(s, e + 5) ELSE 0

\* $ without re.MULTILINE: the end of the text, or just before its final newline
AtEnd(s, e) == e = Len(s) + 1 \/ (e = Len(s) /\ s[e] = "\n")

\* the match of a SELECT pattern that starts at i and whose lazy part stops at e,
\* where LIMIT\s+\d+, a ";" or the third alternative (of no width) matches
SelectUpTo(s, u, i, e) ==
  IF LimitEnd(s, u, e) > 0 THEN Match(i, LimitEnd(s, u, e), LimitEnd(s, u, e))
  ELSE IF At(s, e) = ";" THEN Match(i, e, e)
  ELSE Match(i, e - 1, e - 1)

\* r'\b(SELECT\s+.*?(?:LIMIT\s+\d+|;|$))' with the lazy part starting at q
select_statement_from(s, u, i, q) ==
  SelectUpTo(s, u, i,
    SetMin({e \in q..(Len(s) + 1) : LimitEnd(s, u, e) > 0 \/ At(s, e) = ";" \/ AtEnd(s, e)}))

\* r'\b(SELECT\s+.*?(?:LIMIT\s+\d+|;|$))'
select_statement(s, u, i) ==
  IF /\ MatchAt(u, i, S_SELECT)
     /\ (i = 1 \/ ~IsWordChar(s[i - 1]))
     /\ IsSpace(At(s, i + 6))
    THEN select_statement_from(s, u, i, RunEnd(s, i + 6, IsSpace) + 1)
  ELSE NoMatch

\* the lookahead (?=\s*["}]) at e
QuoteOrBraceAhead(s, e) == At(s, SkipSpace(s, e)) \in {"\"", "}"}

\* r'(SELECT\s+[^"]*?(?:LIMIT\s+\d+|;|(?=\s*["}])))' with the lazy part, which
\* takes no quote, starting at q
multiline_select_from(s, u, i, q) ==
  With({e \in q..(Len(s) + 1) :
          /\ \A k \in q..(e - 1) : s[k] # "\""
          /\ LimitEnd(s, u, e) > 0 \/ At(s, e) = ";" \/ QuoteOrBraceAhead(s, e)},
       LAMBDA ends : IF ends = {} THEN NoMatch ELSE SelectUpTo(s, u, i, SetMin(ends)))

\* r'(SELECT\s+[^"]*?(?:LIMIT\s+\d+|;|(?=\s*["}])))'
multiline_select(s, u, i) ==
  IF MatchAt(u, i, S_SELECT) /\ IsSpace(At(s, i + 6))
    THEN multiline_select_from(s, u, i, RunEnd(s, i + 6, IsSpace) + 1)
  ELSE NoMatch

\* ExtractionMethod.pattern, by the method's name
PatternMatch(name, s, u, i) ==
  CASE name = "sql_code_block" -> sql_code_block(s, u, i)
    [] name = "generic_code_block" -> generic_code_block(s, u, i)
    [] name = "select_statement" -> select_statement(s, u, i)
    [] name = "multiline_select" -> multiline_select(s, u, i)

RECURSIVE FindAll(_, _, _, _)
\* re.findall(method.pattern, response, re.DOTALL | re.IGNORECASE): the captured
\* texts, left to right
FindAll(name, s, u, i) ==
  IF i > Len(s) THEN << >>
  ELSE With(PatternMatch(name, s, u, i),
            LAMBDA m : IF m.ok
                         THEN <<SubSeq(s, m.from, m.to)>> \o FindAll(name, s, u, m.stop + 1)
                       ELSE FindAll(name, s, u, i + 1))

\* EnhancedSQLExtractor.cleanup_patterns, by position in the list: the index at
\* which a match of the pattern that starts at i ends, or 0
CleanupMatch(rule, s, i) ==
  CASE rule = 1 ->   \* r'\s*--.*?\n'
         IF MatchAt(s, RunEnd(s, i, IsSpace) + 1, S_DASHDASH)
           THEN Find(s, S_NL, RunEnd(s, i, IsSpace) + 3) ELSE 0
    [] rule = 2 ->   \* r'/\*.*?\*/'
         IF MatchAt(s, i, S_COMMENT_OPEN) /\ Find(s, S_COMMENT_CLOSE, i + 2) > 0
           THEN Find(s, S_COMMENT_CLOSE, i + 2) + 1 ELSE 0
    [] rule = 3 ->   \* r'",\s*".*$'
         IF MatchAt(s, i, <<"\"", ",">>) /\ MatchAt(s, RunEnd(s, i + 2, IsSpace) + 1, <<"\"">>)
           THEN Len(s) ELSE 0
    [] rule = 4 ->   \* r'"\s*,\s*".*$'
         IF /\ s[i] = "\""
            /\ MatchAt(s, RunEnd(s, i + 1, IsSpace) + 1, <<",">>)
            /\ MatchAt(s, RunEnd(s, RunEnd(s, i + 1, IsSpace) + 2, IsSpace) + 1, <<"\"">>)
           THEN Len(s) ELSE 0
    [] rule = 5 ->   \* r'\s+'
         IF IsSpace(s[i]) THEN RunEnd(s, i, IsSpace) ELSE 0
    [] rule = 6 ->   \* r';\s*$'
         IF s[i] = ";" /\ RunEnd(s, i + 1, IsSpace) = Len(s) THEN Len(s) ELSE 0

\* the replacement of each cleanup pattern
CleanupReplacement(rule) ==
  CASE rule = 1 -> S_NL
    [] rule = 5 -> <<" ">>
    [] OTHER -> << >>

RECURSIVE ReSub(_, _, _)
\* re.sub(pattern, replacement, s) from index i on
ReSub(rule, s, i) ==
  IF i > Len(s) THEN << >>
  ELSE With(CleanupMatch(rule, s, i),
            LAMBDA stop : IF stop > 0 THEN CleanupReplacement(rule) \o ReSub(rule, s, stop + 1)
                          ELSE <<s[i]>> \o ReSub(rule, s, i + 1))

\* EnhancedSQLExtractor._clean_sql: the cleanup patterns in turn, then
\* re.sub(r'\s+', ' ', ...) and strip()
clean_sql(sql) ==
  Strip(ReSub(5, ReSub(6, ReSub(5, ReSub(4, ReSub(3, ReSub(2, ReSub(1,
    Strip(sql), 1), 1), 1), 1), 1), 1), 1))

\* ['DROP', 'DELETE', 'UPDATE', 'INSERT', 'ALTER', 'CREATE', 'TRUNCATE']
dangerous_operations ==
  <<S_DROP, S_DELETE, S_UPDATE, S_INSERT, S_ALTER, S_CREATE, S_TRUNCATE>>

\* _is_valid_sql_format without its loop over dangerous_operations
is_valid_sql_format_NoDangerCheck(sql) ==
  With(Strip(Upper(sql)),
       LAMBDA sql_upper : /\ Len(sql) >= 10
                          /\ StartsWith(sql_upper, S_SELECT)
                          /\ Contains(sql_upper, S_SELECT)
                          /\ Contains(sql_upper, S_FROM))

\* EnhancedSQLExtractor._is_valid_sql_format
is_valid_sql_format(sql) ==
  With(Strip(Upper(sql)),
       LAMBDA sql_upper :
         /\ Len(sql) >= 10
         /\ StartsWith(sql_upper, S_SELECT)
         /\ Contains(sql_upper, S_SELECT)
         /\ Contains(sql_upper, S_FROM)
         /\ \A k \in 1..Len(dangerous_operations) :
              ~Contains(sql_upper, dangerous_operations[k]))

\* re.search(r'SELECT\s+\*', sql, re.IGNORECASE)
SelectsStar(sql) ==
  \E i \in 1..Len(sql) :
    \E q \in {RunEnd(sql, i + 6, IsSpace) + 1} :
      MatchAt(Upper(sql), i, S_SELECT) /\ q > i + 6 /\ MatchAt(sql, q, S_STAR)

\* Confidence scores are Python floats; the model holds them in thousandths.
\* base + bonus in binary floating point is not always the decimal sum:
\* 0.7 + 0.1 and 0.7 + 0.2 and 0.6 + 0.3 fall just below it, 0.8 + 0.05 and
\* 0.8 + 0.15 just above.
FloatSum(base, bonus) ==
  LET exact == 10 * (base + bonus)
  IN  IF <<base, bonus>> \in {<<70, 10>>, <<70, 20>>, <<60, 30>>} THEN exact - 1
      ELSE IF <<base, bonus>> \in {<<80, 5>>, <<80, 15>>} THEN exact + 1
      ELSE exact

\* EnhancedSQLExtractor._calculate_pattern_confidence; weight is in hundredths
calculate_pattern_confidence(sql, weight) ==
  With((IF Contains(Upper(sql), S_LIMIT) THEN 10 ELSE 0)
         + (IF Contains(Upper(sql), S_WHERE) THEN 10 ELSE 0)
         + (IF ~SelectsStar(sql) THEN 5 ELSE 0)
         + (IF 20 <= Len(sql) /\ Len(sql) <= 500 THEN 5 ELSE 0),
       LAMBDA bonus : IF weight + bonus >= 100 THEN 1000 ELSE FloatSum(weight, bonus))

\* SQLExtractionResult, and None for a method that extracts nothing
ExtractionResult(sql_query, extraction_method, confidence_score) ==
  [success |-> TRUE, sql_query |-> sql_query, extraction_method |-> extraction_method,
   confidence_score |-> confidence_score]

None == [success |-> FALSE, sql_query |-> << >>, extraction_method |-> "none",
         confidence_score |-> 0]

\* EnhancedSQLExtractor._extract_with_pattern
extract_with_pattern(response, name, weight) ==
  With(FindAll(name, response, Upper(response), 1),
       LAMBDA matches :
         With({k \in 1..Len(matches) : is_valid_sql_format(clean_sql(matches[k]))},
              LAMBDA valid :
                IF valid = {} THEN None
                ELSE With(clean_sql(matches[SetMin(valid)]),
                          LAMBDA sql : ExtractionResult(sql, name,
                                         calculate_pattern_confidence(sql, weight)))))

\* json.loads. A parse step returns [ok, value, next]: whether it succeeded, the
\* value read, and the index after it. A value is [kind, text, members], kind
\* being "str", "int", "lit" (true, false, null), "obj" or "arr"; members are the
\* <<key, value>> pairs of an object or the items of an array. Fractions,
\* exponents and \u escapes, which no modelled text holds, are not read.
JsonFail == [ok |-> FALSE, value |-> << >>, next |-> 0]

JsonOk(value, next) == [ok |-> TRUE, value |-> value, next |-> next]

JsonValueOf(kind, text, members) == [kind |-> kind, text |-> text, members |-> members]

JsonEscapes ==
  ("\"" :> "\"") @@ ("\\" :> "\\") @@ ("/" :> "/") @@ ("n" :> "\n") @@ ("t" :> "\t")
    @@ ("r" :> "\r") @@ ("b" :> "U+0008") @@ ("f" :> "U+000C")

S_true == <<"t","r","u","e">>
S_false == <<"f","a","l","s","e">>
S_null == <<"n","u","l","l">>

RECURSIVE JsonChars(_, _)
RECURSIVE JsonValue(_, _)
RECURSIVE JsonMembers(_, _)
RECURSIVE JsonItems(_, _)

\* ch followed by the characters of the string from index j on
JsonMore(s, ch, j) ==
  With(JsonChars(s, j),
       LAMBDA r : IF r.ok THEN JsonOk(<<ch>> \o r.value, r.next) ELSE JsonFail)

\* the characters of a string up to its closing quote, from index i on
JsonChars(s, i) ==
  With(At(s, i),
       LAMBDA c : IF c = "" \/ c \in {"\n", "\t", "\r"} THEN JsonFail
                  ELSE IF c = "\"" THEN JsonOk(<< >>, i + 1)
                  ELSE IF c = "\\"
                    THEN IF At(s, i + 1) \in DOMAIN JsonEscapes
                           THEN JsonMore(s, JsonEscapes[At(s, i + 1)], i + 2) ELSE JsonFail
                  ELSE JsonMore(s, c, i + 1))

\* what a parse step r read, as a value of that kind
JsonRead(r, kind) ==
  IF ~r.ok THEN JsonFail
  ELSE IF kind = "str" THEN JsonOk(JsonValueOf(kind, r.value, << >>), r.next)
  ELSE JsonOk(JsonValueOf(kind, << >>, r.value), r.next)

\* a number that starts at i, its digits starting at d
JsonNumber(s, i, d) ==
  With(IF At(s, d) = "0" THEN d ELSE RunEnd(s, d, IsDigit),
       LAMBDA e : IF IsDigit(At(s, d)) /\ At(s, e + 1) \notin {".", "e", "E"}
                    THEN JsonOk(JsonValueOf("int", SubSeq(s, i, e), << >>), e + 1)
                  ELSE JsonFail)

\* the value at index i, q being the index after the whitespace that follows i
JsonValueAt(s, i, c, q) ==
  IF c = "\"" THEN JsonRead(JsonChars(s, i + 1), "str")
  ELSE IF c = "{"
    THEN IF At(s, q) = "}" THEN JsonOk(JsonValueOf("obj", << >>, << >>), q + 1)
         ELSE JsonRead(JsonMembers(s, q), "obj")
  ELSE IF c = "["
    THEN IF At(s, q) = "]" THEN JsonOk(JsonValueOf("arr", << >>, << >>), q + 1)
         ELSE JsonRead(JsonItems(s, q), "arr")
  ELSE IF \E l \in {S_true, S_false, S_null} : MatchAt(s, i, l)
    THEN With(CHOOSE l \in {S_true, S_false, S_null} : MatchAt(s, i, l),
              LAMBDA l : JsonOk(JsonValueOf("lit", l, << >>), i + Len(l)))
  ELSE JsonNumber(s, i, IF c = "-" THEN i + 1 ELSE i)

JsonValue(s, i) == JsonValueAt(s, i, At(s, i), SkipSpace(s, i + 1))

\* the pairs of an object from the one of this key and value on, after being
\* the index of what follows the value
JsonMembersAfter(s, pair, after) ==
  IF At(s, after) = "}" THEN JsonOk(<<pair>>, after + 1)
  ELSE IF At(s, after) = ","
    THEN With(JsonMembers(s, SkipSpace(s, after + 1)),
              LAMBDA rest : IF rest.ok THEN JsonOk(<<pair>> \o rest.value, rest.next)
                            ELSE JsonFail)
  ELSE JsonFail

\* the "key": value pairs of an object up to its closing brace, from index i on
JsonMembers(s, i) ==
  IF At(s, i) # "\"" THEN JsonFail
  ELSE With(JsonChars(s, i + 1),
         LAMBDA key :
           IF ~key.ok \/ At(s, SkipSpace(s, key.next)) # ":" THEN JsonFail
           ELSE With(JsonValue(s, SkipSpace(s, SkipSpace(s, key.next) + 1)),
                  LAMBDA val :
                    IF ~val.ok THEN JsonFail
                    ELSE JsonMembersAfter(s, <<key.value, val.value>>,
                                          SkipSpace(s, val.next))))

\* the items of an array from this one on, after being the index of what
\* follows it
JsonItemsAfter(s, item, after) ==
  IF At(s, after) = "]" THEN JsonOk(<<item>>, after + 1)
  ELSE IF At(s, after) = ","
    THEN With(JsonItems(s, SkipSpace(s, after + 1)),
              LAMBDA rest : IF rest.ok THEN JsonOk(<<item>> \o rest.value, rest.next)
                            ELSE JsonFail)
  ELSE JsonFail

\* the items of an array up to its closing bracket, from index i on
JsonItems(s, i) ==
  With(JsonValue(s, i),
       LAMBDA val : IF ~val.ok THEN JsonFail
                    ELSE JsonItemsAfter(s, val.value, SkipSpace(s, val.next)))

\* json.loads(s): [ok, value]; ok is FALSE where Python raises JSONDecodeError
JsonLoads(s) ==
  With(JsonValue(s, SkipSpace(s, 1)),
       LAMBDA r : IF r.ok /\ SkipSpace(s, r.next) = Len(s) + 1 THEN r ELSE JsonFail)

\* `key in data`
HasKey(data, key) == \E k \in 1..Len(data.members) : data.members[k][1] = key

\* data[key]: the last pair of that key
GetKey(data, key) ==
  data.members[SetMax({k \in 1..Len(data.members) : data.members[k][1] = key})][2]

\* sql_models.py: the field names and enumeration values of SQLQueryResponse
S_sql_query == <<"s","q","l","_","q","u","e","r","y">>
S_query_type == <<"q","u","e","r","y","_","t","y","p","e">>
S_confidence == <<"c","o","n","f","i","d","e","n","c","e">>
S_explanation == <<"e","x","p","l","a","n","a","t","i","o","n">>
S_general == <<"g","e","n","e","r","a","l">>
S_high == <<"h","i","g","h">>
S_medium == <<"m","e","d","i","u","m">>
S_low == <<"l","o","w">>
S_patient_info == <<"p","a","t","i","e","n","t","_","i","n","f","o">>
S_visit_record == <<"v","i","s","i","t","_","r","e","c","o","r","d">>
S_prescription == <<"p","r","e","s","c","r","i","p","t","i","o","n">>
S_lab_result == <<"l","a","b","_","r","e","s","u","l","t">>
S_statistics == <<"s","t","a","t","i","s","t","i","c","s">>
S_table_mapping == <<"t","a","b","l","e","_","m","a","p","p","i","n","g">>
S_field_mapping == <<"f","i","e","l","d","_","m","a","p","p","i","n","g">>
S_estimated_results == <<"e","s","t","i","m","a","t","e","d","_","r","e","s","u","l","t","s">>
S_warnings == <<"w","a","r","n","i","n","g","s">>

\* QueryType
QueryType ==
  {S_patient_info, S_visit_record, S_prescription, S_lab_result, S_statistics, S_general}

\* ConfidenceLevel
ConfidenceLevel == {S_high, S_medium, S_low}

RECURSIVE IntOf(_)
\* int() of a run of digits
IntOf(digits) ==
  IF digits = << >> THEN 0
  ELSE 10 * IntOf(SubSeq(digits, 1, Len(digits) - 1))
         + (CHOOSE n \in 0..9 : ToString(n) = digits[Len(digits)])

\* a value pydantic takes for a field of type str with the given length limits
IsStrField(v, min_length, max_length) ==
  v.kind = "str" /\ min_length <= Len(v.text) /\ Len(v.text) <= max_length

\* a value pydantic takes for a field of type Dict[str, str]
IsStrDict(v) ==
  v.kind = "obj" /\ \A k \in 1..Len(v.members) : v.members[k][2].kind = "str"

\* SQLQueryResponse.validate_sql_query: TRUE where it returns, FALSE where it raises
sql_query_accepted(v) ==
  /\ Strip(v) # << >>
  /\ StartsWith(Upper(Strip(v)), S_SELECT)
  /\ \A k \in 1..Len(dangerous_operations) : ~Contains(Upper(v), dangerous_operations[k])

\* SQLQueryResponse(**data) for a parsed object: TRUE where the model is built,
\* FALSE where pydantic raises ValidationError. Properties that are not fields
\* are ignored. A number where a string is expected is taken as an error.
SQLQueryResponse(data) ==
  LET optional(key, fits(_)) == HasKey(data, key) => fits(GetKey(data, key))
  IN  /\ HasKey(data, S_sql_query)
      /\ IsStrField(GetKey(data, S_sql_query), 10, 2000)
      /\ sql_query_accepted(GetKey(data, S_sql_query).text)
      /\ HasKey(data, S_query_type)
      /\ GetKey(data, S_query_type).kind = "str"
      /\ GetKey(data, S_query_type).text \in QueryType
      /\ HasKey(data, S_confidence)
      /\ GetKey(data, S_confidence).kind = "str"
      /\ GetKey(data, S_confidence).text \in ConfidenceLevel
      /\ HasKey(data, S_explanation)
      /\ IsStrField(GetKey(data, S_explanation), 5, 500)
      /\ Strip(GetKey(data, S_explanation).text) # << >>
      /\ optional(S_table_mapping, IsStrDict)
      /\ optional(S_field_mapping, IsStrDict)
      /\ optional(S_estimated_results,
                  LAMBDA v : \/ v.kind = "lit" /\ v.text = S_null
                             \/ /\ v.kind = "int"
                                /\ Head(v.text) # "-"
                                /\ Len(v.text) <= 5
                                /\ IntOf(v.text) <= 10000)
      /\ optional(S_warnings,
                  LAMBDA v : v.kind = "arr"
                               /\ \A k \in 1..Len(v.members) : v.members[k].kind = "str")

\* _extract_structured_json from json.loads(json_str) on
structured_json_of(json_str) ==
  With(JsonLoads(json_str),
       LAMBDA data :
         IF ~data.ok THEN None
         ELSE IF data.value.kind # "obj" THEN None
         ELSE IF ~SQLQueryResponse(data.value) THEN None
         ELSE ExtractionResult(Strip(GetKey(data.value, S_sql_query).text),
                               "structured_json", 1000))

\* EnhancedSQLExtractor._extract_structured_json
extract_structured_json(response) ==
  \* re.search(r'\{.*\}', response, re.DOTALL)
  With({k \in 1..Len(response) : response[k] = "{"},
       LAMBDA opens :
         With({k \in 1..Len(response) : response[k] = "}"},
              LAMBDA closes :
                IF opens = {} \/ closes = {} THEN None
                ELSE IF SetMax(closes) < SetMin(opens) THEN None
                ELSE structured_json_of(SubSeq(response, SetMin(opens), SetMax(closes)))))

\* "sql_query" in its quotes
QuotedSqlQuery == <<"\"">> \o S_sql_query \o <<"\"">>

\* the json_patterns of _extract_json_sql_field, by position in the list: the
\* index at which a match that starts at i ends, or 0
JsonPatternMatch(pattern, s, i) ==
  CASE pattern = 1 ->   \* r'\{[^{}]*"sql_query"[^{}]*\}'
         With({k \in (i + 1)..Len(s) : s[k] \in {"{", "}"}},
              LAMBDA braces :
                IF s[i] # "{" \/ braces = {} THEN 0
                ELSE With(SetMin(braces),
                          LAMBDA j : IF /\ s[j] = "}"
                                        /\ Contains(SubSeq(s, i + 1, j - 1), QuotedSqlQuery)
                                       THEN j ELSE 0))
    [] pattern = 2 ->   \* r'\{.*?"sql_query".*?\}'
         With(Find(s, QuotedSqlQuery, i + 1),
              LAMBDA k : IF s[i] = "{" /\ k > 0
                           THEN Find(s, <<"}">>, k + Len(QuotedSqlQuery)) ELSE 0)

RECURSIVE JsonFindAll(_, _, _)
\* re.findall(pattern, response, re.DOTALL): the matched texts, left to right
JsonFindAll(pattern, s, i) ==
  IF i > Len(s) THEN << >>
  ELSE With(JsonPatternMatch(pattern, s, i),
            LAMBDA stop : IF stop > 0
                            THEN <<SubSeq(s, i, stop)>> \o JsonFindAll(pattern, s, stop + 1)
                          ELSE JsonFindAll(pattern, s, i + 1))

\* _extract_json_sql_field for a parsed match whose "sql_query" is field:
\* the result, or None to go on with the next match
json_sql_field_of(field) ==
  With(clean_sql(field.text),
       LAMBDA sql : IF Strip(field.text) # << >> /\ is_valid_sql_format(sql)
                      THEN ExtractionResult(sql, "json_sql_field", 900)
                    ELSE None)

RECURSIVE json_sql_field_from(_, _)
\* the loop of _extract_json_sql_field over the matches, from the k-th on
json_sql_field_from(matches, k) ==
  IF k > Len(matches) THEN None
  ELSE With(JsonLoads(matches[k]),
         LAMBDA data :
           IF ~data.ok THEN json_sql_field_from(matches, k + 1)
           ELSE IF ~HasKey(data.value, S_sql_query) THEN json_sql_field_from(matches, k + 1)
           \* .strip() of a value that is no string raises, which ends the method
           ELSE IF GetKey(data.value, S_sql_query).kind # "str" THEN None
           ELSE IF json_sql_field_of(GetKey(data.value, S_sql_query)).success
             THEN json_sql_field_of(GetKey(data.value, S_sql_query))
           ELSE json_sql_field_from(matches, k + 1))

\* EnhancedSQLExtractor._extract_json_sql_field
extract_json_sql_field(response) ==
  json_sql_field_from(JsonFindAll(1, response, 1) \o JsonFindAll(2, response, 1), 1)

\* EnhancedSQLExtractor.extraction_methods: name and confidence_weight in hundredths
extraction_methods ==
  << <<"structured_json", 100>>, <<"json_sql_field", 90>>, <<"sql_code_block", 80>>,
     <<"generic_code_block", 70>>, <<"select_statement", 60>>, <<"multiline_select", 50>> >>

\* EnhancedSQLExtractor._try_extraction_method
try_extraction_method(method, response) ==
  IF method[1] = "structured_json" THEN extract_structured_json(response)
  ELSE IF method[1] = "json_sql_field" THEN extract_json_sql_field(response)
  ELSE extract_with_pattern(response, method[1], method[2])

RECURSIVE extract_sql_from(_, _, _, _)
\* the loop of extract_sql from the k-th method on: best is best_result and
\* tried holds what each method run so far returned
extract_sql_from(response, k, best, tried) ==
  IF k > Len(extraction_methods) THEN [best |-> best, tried |-> tried]
  ELSE With(try_extraction_method(extraction_methods[k], response),
         LAMBDA result :
           IF result.success /\ result.confidence_score > best.confidence_score
             THEN IF result.confidence_score >= 900
                    THEN [best |-> result, tried |-> Append(tried, result)]
                  ELSE extract_sql_from(response, k + 1, result, Append(tried, result))
           ELSE extract_sql_from(response, k + 1, best, Append(tried, result)))

\* EnhancedSQLExtractor.extract_sql
extract_sql(llm_response) == extract_sql_from(llm_response, 1, None, << >>).best

\* the statements a generator response carries in the modelled texts
S_EQ == <<"=">>
S_QUOTED_ONE == <<"'", "1", "'">>
S_1234 == <<"1","2","3","4">>
S_note == <<"n","o","t","e">>
S_limit == <<"l","i","m","i","t">>
S_description == <<"d","e","s","c","r","i","p","t","i","o","n">>
Candidates ==
  { Words(<<S_SELECT, S_STAR, S_FROM, S_CO01M>>),
    Words(<<S_SELECT, S_mname, S_FROM, S_CO01M, S_WHERE, S_kcstmr, S_EQ, S_QUOTED_ONE,
            S_LIMIT, S_TEN>>),
    Words(<<S_SELECT, S_mpersonid, S_FROM, S_CO01M>>),
    Words(<<S_SELECT, S_STAR, S_FROM, S_CO99M>>),
    Words(<<S_DROP, S_TABLE, S_CO01M>>) \o <<";", " ">> \o Words(<<S_SELECT, S_STAR, S_FROM, S_CO01M>>),
    Words(<<S_SELECT, S_mname, S_FROM, S_CO01M>>) \o <<";", " ">> \o Words(<<S_DROP, S_TABLE, S_CO01M>>),
    Words(<<S_SELECT, S_1234>>),
    Words(<<S_SELECT, S_ONE>>) \o <<" ", " ", " ", " ">>,
    Words(<<S_DELETE, S_FROM, S_CO01M>>),
    Words(<<S_select, S_mname, S_from, S_co01m, S_limit, S_TEN>>) \o <<";">>,
    Words(<<S_SELECT, S_updated_at, S_FROM, S_CO01M>>),
    Words(<<S_SELECT, S_mname, S_FROM, S_CO01M, S_DASHDASH, S_note>>) \o <<"\n">>
      \o Words(<<S_LIMIT, S_ONE>>),
    S_SELECT \o <<" ">> \o S_mname \o <<"\n">> \o S_FROM \o <<" ">> \o S_CO01M \o <<"\n">>
      \o Words(<<S_LIMIT, S_TEN>>),
    Words(<<S_SELECT, S_description, S_FROM, S_CO01M>>),
    << >> }

\* json.dumps of a text: the text between quotes with its ", \ and newlines escaped
JsonString(x) ==
  <<"\"">> \o Cat([k \in 1..Len(x) |->
                    CASE x[k] = "\"" -> <<"\\", "\"">>
                      [] x[k] = "\\" -> <<"\\", "\\">>
                      [] x[k] = "\n" -> <<"\\", "n">>
                      [] OTHER -> <<x[k]>>]) \o <<"\"">>

\* a JSON object text of the given <<key, text>> pairs
JsonObject(pairs) ==
  <<"{">> \o Cat([k \in 1..Len(pairs) |->
                   (IF k = 1 THEN << >> ELSE <<",", " ">>)
                     \o JsonString(pairs[k][1]) \o <<":", " ">> \o JsonString(pairs[k][2])])
    \o <<"}">>

S_Here == <<"H","e","r","e">>
S_is == <<"i","s">>
S_the == <<"t","h","e">>
S_query == <<"q","u","e","r","y">>
S_other == <<"o","t","h","e","r">>
S_json == <<"j","s","o","n">>
S_lists_rows == <<"l","i","s","t","s"," ","r","o","w","s">>
Prose == Words(<<S_Here, S_is, S_the, S_query>>) \o <<":", " ">>

StructuredResponse(x, query_type) ==
  JsonObject(<< <<S_sql_query, x>>, <<S_query_type, query_type>>, <<S_confidence, S_high>>,
                <<S_explanation, S_lists_rows>> >>)

\* the forms in which a generator response carries a statement x
ResponsesOf(x) ==
  { x,
    Prose \o x,
    FENCE \o Lower(S_SQL) \o <<"\n">> \o x \o <<"\n">> \o FENCE,
    FENCE \o <<"\n">> \o x \o <<"\n">> \o FENCE,
    Prose \o <<"\n">> \o FENCE \o Lower(S_SQL) \o <<"\n">> \o x \o <<"\n">> \o FENCE \o <<"\n">>,
    StructuredResponse(x, S_general),
    StructuredResponse(x, S_other),
    JsonObject(<< <<S_sql_query, x>> >>),
    FENCE \o S_json \o <<"\n">> \o StructuredResponse(x, S_general) \o <<"\n">> \o FENCE }

\* the generator responses of the model
Responses == UNION {ResponsesOf(x) : x \in Candidates}

\* extract_sql over the modelled responses, as they are and as _call_llm hands
\* them on (stripped), with what each method it ran returned
ExtractSqlTable ==
  [r \in Responses \cup {Strip(r) : r \in Responses} |-> extract_sql_from(r, 1, None, << >>)]

\* the statements extract_sql returns for them
ExtractedSqls ==
  {ExtractSqlTable[r].best.sql_query : r \in {x \in DOMAIN ExtractSqlTable :
                                                ExtractSqlTable[x].best.success}}

\* no extract_sql call has been made
NoExtraction == [called |-> FALSE, response |-> << >>, result |-> None, tried |-> << >>]

\* a caller runs extract_sql; the extractor keeps nothing from one call to the
\* next, so one call per behaviour shows every outcome
ExtractSql ==
  /\ ~extraction.called
  /\ \E r \in Responses :
       extraction' = [called |-> TRUE, response |-> r, result |-> ExtractSqlTable[r].best,
                      tried |-> ExtractSqlTable[r].tried]

----------------------------------------------------------------------------
(* The first agent: LLMQueryAgent of llm_agent.py, its text functions. *)

\* "無法從LLM回應中提取有效的SQL語句"
MSG_no_valid_sql ==
  <<"U+7121","U+6CD5","U+5F9E","L","L","M","U+56DE","U+61C9","U+4E2D","U+63D0","U+53D6","U+6709",
    "U+6548","U+7684","S","Q","L","U+8A9E","U+53E5">>
\* "無法連接到LLM服務: "
MSG_llm_unreachable ==
  <<"U+7121","U+6CD5","U+9023","U+63A5","U+5230","L","L","M","U+670D","U+52D9",":"," ">>
S_LIMIT_1000 == <<"L","I","M","I","T"," ","1","0","0","0">>
S_1000 == <<"1","0","0","0">>
S_1001 == <<"1","0","0","1">>
S_2000 == <<"2","0","0","0">>

\* r'(SELECT\s+.*?(?:;|$))' under re.DOTALL | re.IGNORECASE: the lazy part stops
\* at the first ";", which the group takes, or at the end of the text
select_to_end(s, u, i) ==
  IF MatchAt(u, i, S_SELECT) /\ IsSpace(At(s, i + 6))
    THEN With(SetMin({e \in (RunEnd(s, i + 6, IsSpace) + 1)..(Len(s) + 1) :
                        At(s, e) = ";" \/ AtEnd(s, e)}),
              LAMBDA e : IF At(s, e) = ";" THEN Match(i, e, e) ELSE Match(i, e - 1, e - 1))
  ELSE NoMatch

\* LLMQueryAgent._extract_sql_from_response: sql_patterns, by position
sql_pattern(k, s, u, i) ==
  CASE k = 1 -> sql_code_block(s, u, i)
    [] k = 2 -> generic_code_block(s, u, i)
    [] k = 3 -> select_to_end(s, u, i)

\* re.findall(pattern, response, re.DOTALL | re.IGNORECASE)[0].strip(), or "None"
\* if the pattern matches nowhere
first_match(k, s) ==
  With({i \in 1..Len(s) : sql_pattern(k, s, Upper(s), i).ok},
       LAMBDA at : IF at = {} THEN "None"
                   ELSE With(sql_pattern(k, s, Upper(s), SetMin(at)),
                             LAMBDA m : Strip(SubSeq(s, m.from, m.to))))

\* str.rstrip(';')
RStripSemicolons(s) ==
  IF \A i \in 1..Len(s) : s[i] = ";" THEN << >>
  ELSE SubSeq(s, 1, CHOOSE i \in 1..Len(s) : s[i] # ";" /\ \A j \in (i + 1)..Len(s) : s[j] = ";")

RECURSIVE extract_sql_from_pattern(_, _)
\* the loop of _extract_sql_from_response from the k-th pattern on
extract_sql_from_pattern(k, response) ==
  IF k > 3 THEN [raised |-> TRUE, message |-> MSG_no_valid_sql, sql |-> << >>]
  ELSE With(first_match(k, response),
            LAMBDA sql : IF sql # "None" /\ StartsWith(Upper(sql), S_SELECT)
                           THEN [raised |-> FALSE, message |-> << >>, sql |-> RStripSemicolons(sql)]
                         ELSE extract_sql_from_pattern(k + 1, response))

\* LLMQueryAgent._extract_sql_from_response: the statement, or the exception
extract_sql_from_response(response) == extract_sql_from_pattern(1, response)

\* the start of the first match of LIMIT\s+(\d+) in u, or 0
FirstLimit(u) ==
  With({e \in 1..Len(u) : LimitEnd(u, u, e) > 0},
       LAMBDA at : IF at = {} THEN 0 ELSE SetMin(at))

\* the group (\d+) of the match of LIMIT\s+(\d+) that starts at e and ends at x
LimitDigits(u, e, x) == SubSeq(u, RunEnd(u, e + 5, IsSpace) + 1, x)

RECURSIVE SubLimits(_, _, _)
\* re.sub(r'LIMIT\s+\d+', 'LIMIT 1000', sql, flags=re.IGNORECASE), from index i on
SubLimits(s, u, i) ==
  IF i > Len(s) THEN << >>
  ELSE IF LimitEnd(s, u, i) > 0 THEN S_LIMIT_1000 \o SubLimits(s, u, LimitEnd(s, u, i) + 1)
  ELSE <<s[i]>> \o SubLimits(s, u, i + 1)

\* _validate_and_enhance_sql once the statement is known to start with SELECT:
\* sql_upper is the statement upper-cased and stripped, as it came in
enhance_sql(sql, sql_upper) ==
  With(IF Contains(sql_upper, S_LIMIT) THEN sql ELSE sql \o <<" ">> \o S_LIMIT_1000,
       LAMBDA with_limit :
         With(FirstLimit(sql_upper),
              LAMBDA e :
                IF e > 0 /\ IntOf(LimitDigits(sql_upper, e, LimitEnd(sql_upper, sql_upper, e))) > 1000
                  THEN SubLimits(with_limit, Upper(with_limit), 1)
                ELSE with_limit))

\* _validate_and_enhance_sql that lets every statement through
validate_and_enhance_sql_AnyStatement(sql) ==
  [raised |-> FALSE, message |-> << >>, sql |-> enhance_sql(sql, Strip(Upper(sql)))]

\* LLMQueryAgent._validate_and_enhance_sql: the statement, or the exception
validate_and_enhance_sql(sql) ==
  IF ~StartsWith(Strip(Upper(sql)), S_SELECT)
    THEN [raised |-> TRUE, message |-> MSG_only_select_db, sql |-> << >>]
  ELSE [raised |-> FALSE, message |-> << >>, sql |-> enhance_sql(sql, Strip(Upper(sql)))]

\* the statements _validate_and_enhance_sql is called with
EnhanceSqls ==
  { Words(<<S_SELECT, S_STAR, S_FROM, S_CO01M>>),
    Words(<<S_SELECT, S_mpersonid, S_FROM, S_CO01M>>),
    Words(<<S_SELECT, S_mname, S_FROM, S_CO01M>>),
    <<" ">> \o Words(<<S_select, S_STAR, S_from, S_CO01M>>),
    Words(<<S_SELECT, S_STAR, S_FROM, S_CO01M, S_LIMIT, S_TEN>>),
    Words(<<S_SELECT, S_STAR, S_FROM, S_CO01M, S_LIMIT, S_1000>>),
    Words(<<S_SELECT, S_STAR, S_FROM, S_CO01M, S_LIMIT, S_1001>>),
    Words(<<S_SELECT, S_STAR, S_FROM, S_CO01M, S_LIMIT, S_2000>>),
    Words(<<S_select, S_mname, S_from, S_co01m, S_limit, S_2000>>),
    Words(<<S_SELECT, S_mname, S_FROM, S_CO01M, S_WHERE, S_mname, S_EQ>>)
      \o <<" ", "'">> \o S_limit \o <<"'">>,
    Words(<<S_SELECT, S_STAR, S_FROM>>) \o <<" ", "(">>
      \o Words(<<S_SELECT, S_STAR, S_FROM, S_CO01M, S_LIMIT, S_TEN>>) \o <<")", " ">>
      \o Words(<<S_LIMIT, S_2000>>),
    Words(<<S_DROP, S_TABLE, S_CO01M>>),
    Words(<<S_DELETE, S_FROM, S_CO01M>>),
    << >> }

\* _validate_and_enhance_sql over the modelled statements
EnhancedSql == [sql \in EnhanceSqls |-> validate_and_enhance_sql(sql)]

\* a generator response of the first agent: a statement in a ```sql block
Fenced(sql) == FENCE \o <<"s","q","l","\n">> \o sql \o <<"\n">> \o FENCE

\* the generator responses of the first agent in the model
QueryAgentResponses ==
  { Fenced(Words(<<S_SELECT, S_mpersonid, S_FROM, S_CO01M>>)),
    Fenced(Words(<<S_SELECT, S_STAR, S_FROM, S_CO01M>>)),
    Fenced(Words(<<S_SELECT, S_mname, S_FROM, S_CO01M, S_LIMIT, S_TEN>>)),
    Fenced(Words(<<S_DROP, S_TABLE, S_CO01M>>)),
    Words(<<S_SELECT, S_mname, S_FROM, S_CO01M>>) \o S_SEMI,
    Words(<<S_SELECT, S_STAR, S_FROM, S_CO01M, S_UNION, S_SELECT, S_STAR, S_FROM, S_CO99M>>),
    Prose }

\* what the first agent makes of a response before it calls the gateway: the
\* statement extracted, validated and enhanced, or the exception
PreparedSql ==
  [response \in QueryAgentResponses |->
     With(extract_sql_from_response(response),
          LAMBDA x : IF x.raised THEN x
                     ELSE IF x.sql \in EnhanceSqls THEN EnhancedSql[x.sql]
                     ELSE validate_and_enhance_sql(x.sql))]

\* the statements the first agent hands to the gateway
QueryAgentSqls == {PreparedSql[r].sql : r \in {x \in QueryAgentResponses : ~PreparedSql[x].raised}}

----------------------------------------------------------------------------

(* Execution Gateway: db_manager.py *)

DANGEROUS_SQL_KEYWORDS ==
  << S_DROP, S_DELETE, S_UPDATE, S_INSERT, S_ALTER, S_CREATE, S_TRUNCATE,
     S_EXEC, S_EXECUTE, S_UNION, S_SCRIPT, S_DASHDASH, S_COMMENT_OPEN,
     S_COMMENT_CLOSE, S_SEMI_DASHDASH >>

\* the first of DANGEROUS_SQL_KEYWORDS that sql_upper contains, as its place in
\* the list, or 0
FirstDangerous(sql_upper) ==
  With({k \in 1..Len(DANGEROUS_SQL_KEYWORDS) : Contains(sql_upper, DANGEROUS_SQL_KEYWORDS[k])},
       LAMBDA hits : IF hits = {} THEN 0 ELSE SetMin(hits))

\* _validate_sql_query without the SELECT prefix test
validate_sql_query_NoPrefix(sql) ==
  With(FirstDangerous(Strip(Upper(sql))),
       LAMBDA hit :
         IF hit > 0
           THEN [is_safe |-> FALSE,
                 error_msg |-> MSG_forbidden_keyword_db \o DANGEROUS_SQL_KEYWORDS[hit]]
         ELSE IF Count(sql, ";") > 1
           THEN [is_safe |-> FALSE, error_msg |-> MSG_multi_query_db]
         ELSE IF Contains(sql, S_DASHDASH) \/ Contains(sql, S_COMMENT_OPEN)
           THEN [is_safe |-> FALSE, error_msg |-> MSG_comment_db]
         ELSE [is_safe |-> TRUE, error_msg |-> << >>])

\* DatabaseManager._validate_sql_query: (is_safe, error_msg)
validate_sql_query(sql) ==
  With(FirstDangerous(Strip(Upper(sql))),
       LAMBDA hit :
         IF hit > 0
           THEN [is_safe |-> FALSE,
                 error_msg |-> MSG_forbidden_keyword_db \o DANGEROUS_SQL_KEYWORDS[hit]]
         ELSE IF ~StartsWith(Strip(Upper(sql)), S_SELECT)
           THEN [is_safe |-> FALSE, error_msg |-> MSG_only_select_db]
         ELSE IF Count(sql, ";") > 1
           THEN [is_safe |-> FALSE, error_msg |-> MSG_multi_query_db]
         ELSE IF Contains(sql, S_DASHDASH) \/ Contains(sql, S_COMMENT_OPEN)
           THEN [is_safe |-> FALSE, error_msg |-> MSG_comment_db]
         ELSE [is_safe |-> TRUE, error_msg |-> << >>])

Users == {"system", "alice"}

\* statements direct callers hand to the gateway
GatewaySqls ==
  { Words(<<S_SELECT, S_STAR, S_FROM, S_CO01M>>),
    Words(<<S_select, S_mname, S_from, S_co01m>>),
    <<" ">> \o Words(<<S_select, S_STAR, S_from, S_CO02M>>) \o S_SEMI,
    Words(<<S_DROP, S_TABLE, S_CO01M>>),
    Words(<<S_SELECT, S_STAR, S_FROM, S_CO01M>>) \o S_SEMI \o <<" ">>
      \o Words(<<S_DROP, S_TABLE, S_CO01M>>) \o S_SEMI,
    Words(<<S_SELECT, S_updated_at, S_FROM, S_CO01M>>),
    Words(<<S_SELECT, S_mname, S_FROM, S_CO01M, S_UNION, S_SELECT, S_mname, S_FROM, S_CO99M>>),
    Words(<<S_SELECT, S_STAR, S_FROM, S_CO01M, S_DASHDASH>>),
    Words(<<S_SELECT, S_ONE>>) \o S_SEMI \o Words(<<S_SELECT, S_ONE>>) \o S_SEMI,
    Words(<<S_CO01M>>),
    << >> }

\* _validate_sql_query tabulated over the statements that reach the gateway,
\* from its direct callers and from the pipeline (evaluated once per statement)
GatewayCheck ==
  [sql \in GatewaySqls \cup ExtractedSqls \cup QueryAgentSqls |-> validate_sql_query(sql)]

\* DatabaseManager._generate_query_hash: the MD5 digest, taken as collision free,
\* is represented by the hashed text
generate_query_hash(sql) == <<"md5", sql>>

\* the outcomes of pd.read_sql_query on the SQLite connection
StorageErrors == {ERR_no_such_table, ERR_syntax, ERR_locked}

StorageOutcomes ==
  [ok : {TRUE}, rows : 0..MaxStorageRows, err : {<< >>}]
    \cup [ok : {FALSE}, rows : {0}, err : StorageErrors]

\* execute_query without the cut to max_results
LimitResults_None(rows) == rows

\* df.head(max_results) when len(df) > max_results
LimitResults(rows) == IF rows > max_results THEN max_results ELSE rows

\* DatabaseManager._log_query: the row inserted into query_log
LogEntry(user_id, sql, result_count) ==
  [user_id |-> user_id, query_hash |-> generate_query_hash(sql),
   query_text |-> sql, result_count |-> result_count]

\* what an execute_query call did and returned: the steps it took, the error
\* it raised if any, the number of rows it returned
GatewayCall(sql, user_id, events, raised, message, rows) ==
  [sql |-> sql, user_id |-> user_id, events |-> events, raised |-> raised,
   message |-> message, rows |-> rows]

\* execute_query from the cache lookup on, counting in queries_executed a query
\* that storage failed
execute_checked_query_CountsFailures(sql, user_id, query_hash, out, df, cache, st, log) ==
  IF query_hash \in DOMAIN cache
    THEN [cache |-> cache,
          stats |-> [st EXCEPT !.cache_hits = @ + 1],
          log |-> log,
          call |-> GatewayCall(sql, user_id, <<"validate", "cache_lookup">>, "none", << >>,
                               cache[query_hash])]
  ELSE IF ~out.ok
    THEN [cache |-> cache, stats |-> [st EXCEPT !.queries_executed = @ + 1], log |-> log,
          call |-> GatewayCall(sql, user_id, <<"validate", "cache_lookup", "storage">>,
                               "DatabaseError",
                               MSG_processing_failed \o MSG_pandas_prefix \o sql
                                 \o MSG_pandas_sep \o out.err,
                               0)]
  ELSE [cache |-> IF Cardinality(DOMAIN cache) < cache_size
                    THEN (query_hash :> df) @@ cache
                    ELSE cache,
        stats |-> [st EXCEPT !.queries_executed = @ + 1],
        log |-> Append(log, LogEntry(user_id, sql, df)),
        call |-> GatewayCall(sql, user_id, <<"validate", "cache_lookup", "storage", "log">>,
                             "none", << >>, df)]

\* execute_query from the cache lookup on, writing an audit entry for a call
\* answered from the cache as well
execute_checked_query_LogsHits(sql, user_id, query_hash, out, df, cache, st, log) ==
  IF query_hash \in DOMAIN cache
    THEN [cache |-> cache,
          stats |-> [st EXCEPT !.cache_hits = @ + 1],
          log |-> Append(log, LogEntry(user_id, sql, cache[query_hash])),
          call |-> GatewayCall(sql, user_id, <<"validate", "cache_lookup">>, "none", << >>,
                               cache[query_hash])]
  ELSE IF ~out.ok
    THEN [cache |-> cache, stats |-> st, log |-> log,
          call |-> GatewayCall(sql, user_id, <<"validate", "cache_lookup", "storage">>,
                               "DatabaseError",
                               MSG_processing_failed \o MSG_pandas_prefix \o sql
                                 \o MSG_pandas_sep \o out.err,
                               0)]
  ELSE [cache |-> IF Cardinality(DOMAIN cache) < cache_size
                    THEN (query_hash :> df) @@ cache
                    ELSE cache,
        stats |-> [st EXCEPT !.queries_executed = @ + 1],
        log |-> Append(log, LogEntry(user_id, sql, df)),
        call |-> GatewayCall(sql, user_id, <<"validate", "cache_lookup", "storage", "log">>,
                             "none", << >>, df)]

\* execute_query from the cache lookup on; df is what storage answers, cut to
\* max_results rows
execute_checked_query(sql, user_id, query_hash, out, df, cache, st, log) ==
  IF query_hash \in DOMAIN cache
    THEN [cache |-> cache,
          stats |-> [st EXCEPT !.cache_hits = @ + 1],
          log |-> log,
          call |-> GatewayCall(sql, user_id, <<"validate", "cache_lookup">>, "none", << >>,
                               cache[query_hash])]
  ELSE IF ~out.ok
    THEN [cache |-> cache, stats |-> st, log |-> log,
          call |-> GatewayCall(sql, user_id, <<"validate", "cache_lookup", "storage">>,
                               "DatabaseError",
                               MSG_processing_failed \o MSG_pandas_prefix \o sql
                                 \o MSG_pandas_sep \o out.err,
                               0)]
  ELSE [cache |-> IF Cardinality(DOMAIN cache) < cache_size
                    THEN (query_hash :> df) @@ cache
                    ELSE cache,
        stats |-> [st EXCEPT !.queries_executed = @ + 1],
        log |-> Append(log, LogEntry(user_id, sql, df)),
        call |-> GatewayCall(sql, user_id, <<"validate", "cache_lookup", "storage", "log">>,
                             "none", << >>, df)]

\* DatabaseManager.execute_query(sql, user_id=user_id), as a relation between the
\* gateway state before (cache, st, log) and the record
\* [cache, stats, log, call] after; out is what storage answers if it is asked
execute_query(sql, user_id, out, cache, st, log) ==
  With(GatewayCheck[sql],
       LAMBDA check :
         IF ~check.is_safe
           THEN [cache |-> cache, stats |-> st, log |-> log,
                 call |-> GatewayCall(sql, user_id, <<"validate">>, "DatabaseError",
                                      MSG_processing_failed \o MSG_unsafe_prefix
                                        \o check.error_msg,
                                      0)]
         ELSE execute_checked_query(sql, user_id, generate_query_hash(sql), out,
                                    LimitResults(out.rows), cache, st, log))

NoCall ==
  [sql |-> << >>, user_id |-> "", events |-> << >>, raised |-> "none",
   message |-> << >>, rows |-> 0]

\* DatabaseManager.__init__
GatewayInit ==
  /\ query_cache = << >>
  /\ stats = [queries_executed |-> 0, cache_hits |-> 0]
  /\ query_log = << >>
  /\ lastCall = NoCall

\* a caller runs execute_query
ExecuteQuery ==
  /\ ncalls < MaxCalls
  /\ \E sql \in GatewaySqls, user_id \in Users, out \in StorageOutcomes :
       \E r \in {execute_query(sql, user_id, out, query_cache, stats, query_log)} :
         /\ query_cache' = r.cache
         /\ stats' = r.stats
         /\ query_log' = r.log
         /\ lastCall' = r.call
  /\ ncalls' = ncalls + 1
  /\ UNCHANGED <<threads, stored>>

\* the statements of the callers that query CO01M while data is imported into it:
\* each selects every row of the table
StoredSqls ==
  { Words(<<S_SELECT, S_STAR, S_FROM, S_CO01M>>),
    Words(<<S_select, S_mname, S_from, S_co01m>>) }

\* pd.read_sql_query on the connection for a statement that selects every row
\* of CO01M
StoredOutcome(rows) == [ok |-> TRUE, rows |-> rows, err |-> << >>]

\* a caller runs execute_query with a statement on CO01M; storage answers with
\* the rows the table holds
ExecuteStoredQuery ==
  /\ ncalls < MaxCalls
  /\ \E sql \in StoredSqls, user_id \in Users :
       \E r \in {execute_query(sql, user_id, StoredOutcome(stored), query_cache, stats,
                               query_log)} :
         /\ query_cache' = r.cache
         /\ stats' = r.stats
         /\ query_log' = r.log
         /\ lastCall' = r.call
  /\ ncalls' = ncalls + 1
  /\ UNCHANGED <<threads, stored>>

\* DatabaseManager.import_dbf_data("CO01M", df, if_exists) with a df of n rows:
\* 'append' adds the rows to the table, 'replace' puts them in its place, and
\* with 'fail' to_sql raises as the table exists and the call returns False
ImportDbfData ==
  /\ \E n \in 1..MaxStorageRows, if_exists \in {"append", "replace", "fail"} :
       /\ if_exists = "append" => stored + n <= MaxStorageRows
       /\ stored' = CASE if_exists = "append" -> stored + n
                       [] if_exists = "replace" -> n
                       [] if_exists = "fail" -> stored
  /\ UNCHANGED <<query_cache, stats, query_log, ncalls, lastCall, threads>>

\* DatabaseManager.clear_cache
ClearCache ==
  /\ query_cache' = << >>
  /\ UNCHANGED <<stats, query_log, ncalls, lastCall, threads, stored>>

----------------------------------------------------------------------------
(* Concurrent callers of execute_query on one DatabaseManager: the code takes *)
(* no lock, so a thread may be suspended between any two accesses of the      *)
(* cache, the counters and the log. Each thread makes one call.               *)

\* the number of threads
NThreads == 2

Threads == 1..NThreads

\* the statements of the concurrent callers: two that pass the gateway's check
\* and one that does not
ConcurrentSqls ==
  { Words(<<S_SELECT, S_STAR, S_FROM, S_CO01M>>),
    Words(<<S_select, S_mname, S_from, S_co01m>>),
    Words(<<S_DROP, S_TABLE, S_CO01M>>) }

\* what storage answers to a concurrent caller in the model
ConcurrentStorageOutcomes ==
  {out \in StorageOutcomes : IF out.ok THEN out.rows = 1 ELSE out.err = ERR_locked}

\* the locals of a thread that has not called yet
NoThread ==
  [pc |-> "idle", sql |-> << >>, user_id |-> "", df |-> 0, counter |-> "none", loaded |-> 0,
   raised |-> "none"]

ThreadsInit == threads = [t \in Threads |-> NoThread]

\* thread t calls execute_query(sql, user_id=user_id): _validate_sql_query, which
\* reads nothing shared, and the raise if the statement is rejected
ThreadCall(t) ==
  /\ threads[t].pc = "idle"
  /\ \E sql \in ConcurrentSqls, user_id \in Users :
       threads' = [threads EXCEPT ![t] =
                     IF GatewayCheck[sql].is_safe
                       THEN [@ EXCEPT !.pc = "cache_lookup", !.sql = sql, !.user_id = user_id]
                     ELSE [@ EXCEPT !.pc = "done", !.sql = sql, !.user_id = user_id,
                                    !.raised = "DatabaseError"]]
  /\ UNCHANGED <<query_cache, stats, query_log, ncalls, lastCall, stored>>

\* `if query_hash in self._query_cache`
ThreadCacheLookup(t) ==
  /\ threads[t].pc = "cache_lookup"
  /\ threads' = [threads EXCEPT ![t] =
                   IF generate_query_hash(threads[t].sql) \in DOMAIN query_cache
                     THEN [@ EXCEPT !.pc = "load_counter", !.counter = "cache_hits",
                                    !.df = query_cache[generate_query_hash(threads[t].sql)]]
                   ELSE [@ EXCEPT !.pc = "storage"]]
  /\ UNCHANGED <<query_cache, stats, query_log, ncalls, lastCall, stored>>

\* pd.read_sql_query and df.head(max_results); an error of storage is raised
\* as DatabaseError
ThreadReadStorage(t) ==
  /\ threads[t].pc = "storage"
  /\ \E out \in ConcurrentStorageOutcomes :
       threads' = [threads EXCEPT ![t] =
                     IF out.ok THEN [@ EXCEPT !.pc = "cache_check", !.df = LimitResults(out.rows)]
                     ELSE [@ EXCEPT !.pc = "done", !.raised = "DatabaseError"]]
  /\ UNCHANGED <<query_cache, stats, query_log, ncalls, lastCall, stored>>

\* `if len(self._query_cache) < self._cache_size`
ThreadCacheCheck(t) ==
  /\ threads[t].pc = "cache_check"
  /\ threads' = [threads EXCEPT ![t] =
                   IF Cardinality(DOMAIN query_cache) < cache_size
                     THEN [@ EXCEPT !.pc = "cache_store"]
                   ELSE [@ EXCEPT !.pc = "load_counter", !.counter = "queries_executed"]]
  /\ UNCHANGED <<query_cache, stats, query_log, ncalls, lastCall, stored>>

\* `self._query_cache[query_hash] = df.copy()`
ThreadCacheStore(t) ==
  /\ threads[t].pc = "cache_store"
  /\ query_cache' = (generate_query_hash(threads[t].sql) :> threads[t].df) @@ query_cache
  /\ threads' = [threads EXCEPT ![t] = [@ EXCEPT !.pc = "load_counter",
                                                 !.counter = "queries_executed"]]
  /\ UNCHANGED <<stats, query_log, ncalls, lastCall, stored>>

\* `self.stats[counter] += 1`, first half: the value is loaded
ThreadLoadCounter(t) ==
  /\ threads[t].pc = "load_counter"
  /\ threads' = [threads EXCEPT ![t] = [@ EXCEPT !.pc = "store_counter",
                                                 !.loaded = stats[threads[t].counter]]]
  /\ UNCHANGED <<query_cache, stats, query_log, ncalls, lastCall, stored>>

\* `self.stats[counter] += 1`, second half: the value loaded, plus one, is
\* stored; a cache hit returns after it
ThreadStoreCounter(t) ==
  /\ threads[t].pc = "store_counter"
  /\ stats' = [stats EXCEPT ![threads[t].counter] = threads[t].loaded + 1]
  /\ threads' = [threads EXCEPT ![t] =
                   [@ EXCEPT !.pc = IF threads[t].counter = "cache_hits" THEN "done" ELSE "log"]]
  /\ UNCHANGED <<query_cache, query_log, ncalls, lastCall, stored>>

\* self._log_query(user_id, sql, len(df), execution_time) and `return df`
ThreadLogQuery(t) ==
  /\ threads[t].pc = "log"
  /\ query_log' = Append(query_log, LogEntry(threads[t].user_id, threads[t].sql, threads[t].df))
  /\ threads' = [threads EXCEPT ![t] = [@ EXCEPT !.pc = "done"]]
  /\ UNCHANGED <<query_cache, stats, ncalls, lastCall, stored>>

----------------------------------------------------------------------------
(* One query: _execute_single_query of llm_agent_v2.py. The generator is the *)
(* environment.                                                              *)

\* what an operation does when called: it returns, or raises Exception(message)
Returned == [raised |-> FALSE, message |-> << >>]
Raised(message) == [raised |-> TRUE, message |-> message]


\* 無法從LLM回應中提取有效的SQL語句: 
MSG_extraction_failed ==
  <<"U+7121","U+6CD5","U+5F9E","L","L","M","U+56DE","U+61C9","U+4E2D","U+63D0","U+53D6","U+6709",
    "U+6548","U+7684","S","Q","L","U+8A9E","U+53E5",":"," ">>

\* 無法從回應中提取任何SQL語句
MSG_no_sql ==
  <<"U+7121","U+6CD5","U+5F9E","U+56DE","U+61C9","U+4E2D","U+63D0","U+53D6","U+4EFB","U+4F55","S",
    "Q","L","U+8A9E","U+53E5">>

\* 資料庫查詢執行失敗: 
MSG_db_failed ==
  <<"U+8CC7","U+6599","U+5EAB","U+67E5","U+8A62","U+57F7","U+884C","U+5931","U+6557",":"," ">>

\* LLM連線失敗: 
MSG_llm_connection == <<"L","L","M","U+9023","U+7DDA","U+5931","U+6557",":"," ">>

\* LLM調用失敗: 
MSG_llm_call == <<"L","L","M","U+8ABF","U+7528","U+5931","U+6557",":"," ">>

\* LLM回應為空
MSG_llm_empty == <<"L","L","M","U+56DE","U+61C9","U+70BA","U+7A7A">>

\* LLM API回應錯誤: 
MSG_api_status ==
  <<"L","L","M"," ","A","P","I","U+56DE","U+61C9","U+932F","U+8AA4",":"," ">>

\* LLM回應JSON解析失敗: 
MSG_llm_json ==
  <<"L","L","M","U+56DE","U+61C9","J","S","O","N","U+89E3","U+6790","U+5931","U+6557",":"," ">>

\* Expecting value: line 1 column 1 (char 0)
ERR_expecting_value ==
  <<"E","x","p","e","c","t","i","n","g"," ","v","a","l","u","e",":"," ","l","i","n","e"," ","1",
    " ","c","o","l","u","m","n"," ","1"," ","(","c","h","a","r"," ","0",")">>

\* 500
S_status_500 == <<"5","0","0">>

\* Failed to establish a new connection: [Errno 111] Connection refused
ERR_connection_refused ==
  <<"F","a","i","l","e","d"," ","t","o"," ","e","s","t","a","b","l","i","s","h"," ","a"," ","n",
    "e","w"," ","c","o","n","n","e","c","t","i","o","n",":"," ","[","E","r","r","n","o"," ","1",
    "1","1","]"," ","C","o","n","n","e","c","t","i","o","n"," ","r","e","f","u","s","e","d">>

\* Read timed out. (read timeout=30)
ERR_read_timeout ==
  <<"R","e","a","d"," ","t","i","m","e","d"," ","o","u","t","."," ","(","r","e","a","d"," ","t",
    "i","m","e","o","u","t","=","3","0",")">>

\* empty response
ERR_empty_response == <<"e","m","p","t","y"," ","r","e","s","p","o","n","s","e">>

\* what the generator does when asked: it answers with a text, the request
\* raises requests.RequestException, the status of the response is not 200, or
\* response.json() raises json.JSONDecodeError
Answer(text) == [kind |-> "answer", text |-> text]
RequestException(detail) == [kind |-> "request_exception", text |-> detail]
BadStatus(status_code) == [kind |-> "bad_status", text |-> status_code]
JSONDecodeError(detail) == [kind |-> "json_decode_error", text |-> detail]

\* the generator's answers in the model
GeneratorTexts ==
  { Words(<<S_SELECT, S_STAR, S_FROM, S_CO01M>>),
    FENCE \o Lower(S_SQL) \o <<"\n">>
      \o Words(<<S_SELECT, S_mname, S_FROM, S_CO01M, S_WHERE, S_kcstmr, S_EQ, S_QUOTED_ONE,
                 S_LIMIT, S_TEN>>) \o <<"\n">> \o FENCE,
    Words(<<S_DROP, S_TABLE, S_CO01M>>) \o <<";", " ">> \o Words(<<S_SELECT, S_STAR, S_FROM, S_CO01M>>),
    FENCE \o Lower(S_SQL) \o <<"\n">> \o Words(<<S_DROP, S_TABLE, S_CO01M>>) \o <<";", " ">>
      \o Words(<<S_SELECT, S_STAR, S_FROM, S_CO01M>>) \o <<"\n">> \o FENCE,
    Words(<<S_SELECT, S_description, S_FROM, S_CO01M>>),
    Prose \o Words(<<S_DELETE, S_FROM, S_CO01M>>),
    << >> }

\* a body that is not JSON raises json.JSONDecodeError, which in the later
\* versions of requests is a RequestException as well: both are in the model
GeneratorOutcomes ==
  {Answer(t) : t \in GeneratorTexts}
    \cup {RequestException(ERR_connection_refused), RequestException(ERR_read_timeout),
          RequestException(ERR_expecting_value), JSONDecodeError(ERR_expecting_value),
          BadStatus(S_status_500)}

\* ModernLLMQueryAgent._call_llm: the stripped answer, or the exception raised
call_llm(g) ==
  IF g.kind = "request_exception"
    THEN [raised |-> TRUE, message |-> MSG_llm_connection \o g.text, response |-> << >>]
  ELSE IF g.kind = "json_decode_error"
    THEN [raised |-> TRUE, message |-> MSG_llm_json \o g.text, response |-> << >>]
  ELSE IF g.kind = "bad_status"
    THEN [raised |-> TRUE, message |-> MSG_llm_call \o MSG_api_status \o g.text,
          response |-> << >>]
  ELSE IF Strip(g.text) = << >>
    THEN [raised |-> TRUE, message |-> MSG_llm_call \o MSG_llm_empty, response |-> << >>]
  ELSE [raised |-> FALSE, message |-> << >>, response |-> Strip(g.text)]

\* validate_sql tabulated over the statements extract_sql returns
PipelineValidation ==
  [fk \in ForbiddenOrders |-> [sql \in ExtractedSqls |-> validate_sql(sql, fk)]]

\* one call of _execute_single_query: what the generator did, the components
\* called in turn, what each returned, the gateway's state after it and the result
SingleQuery(g, steps, extraction_result, validated, gateway, result) ==
  [llm |-> g, steps |-> steps, extraction |-> extraction_result, validation |-> validated,
   gateway |-> gateway, result |-> result]

\* the gateway's state when execute_query is not called
GatewayUntouched(cache, st, log) == [cache |-> cache, stats |-> st, log |-> log, call |-> NoCall]

\* the validation result lets the statement through, whatever it is
passes_validation_Always(validation_result) == TRUE

\* the test of validation_result.is_safe (llm_agent_v2.py:178)
passes_validation(validation_result) == validation_result.is_safe

\* _execute_single_query from the execute_query call on
single_query_executed(g, extraction_result, validated, gateway) ==
  SingleQuery(g, <<"llm", "extract", "validate", "execute">>, extraction_result, validated,
              gateway,
              IF gateway.call.raised # "none"
                THEN Raised(MSG_db_failed \o gateway.call.message)
              ELSE Returned)

\* _execute_single_query from the validation on
single_query_validated(g, extraction_result, validated, out, cache, st, log) ==
  IF ~passes_validation(validated.result)
    THEN SingleQuery(g, <<"llm", "extract", "validate">>, extraction_result, validated,
                     GatewayUntouched(cache, st, log),
                     Raised(MSG_unsafe_prefix \o validated.result.error_message))
  ELSE single_query_executed(g, extraction_result, validated,
         execute_query(extraction_result.sql_query, "system", out, cache, st, log))

\* _execute_single_query from the extraction on
single_query_extracted(g, extraction_result, out, fk, cache, st, log) ==
  IF ~extraction_result.success
    THEN SingleQuery(g, <<"llm", "extract">>, extraction_result, NoValidation,
                     GatewayUntouched(cache, st, log),
                     Raised(MSG_extraction_failed \o MSG_no_sql))
  ELSE single_query_validated(g, extraction_result,
         [called |-> TRUE, sql |-> extraction_result.sql_query,
          result |-> PipelineValidation[fk][extraction_result.sql_query]],
         out, cache, st, log)

\* ModernLLMQueryAgent._execute_single_query: g is what the generator does, out
\* what storage answers if it is asked, fk the validator's keyword order and
\* (cache, st, log) the gateway's state before
execute_single_query(g, out, fk, cache, st, log) ==
  With(call_llm(g),
       LAMBDA llm :
         IF llm.raised
           THEN SingleQuery(g, <<"llm">>, None, NoValidation, GatewayUntouched(cache, st, log),
                            Raised(llm.message))
         ELSE single_query_extracted(g, ExtractSqlTable[llm.response].best, out, fk,
                                     cache, st, log))

----------------------------------------------------------------------------
(* Retry Orchestrator: smart_retry.py. A pattern of error_patterns is a run  *)
(* of literal parts with ".*" between them (and, but for the first pattern,  *)
(* in front); it is written as the sequence of its parts.                    *)

\* SmartErrorHandler.error_patterns, in the order of the dict: <<parts, category>>
error_patterns ==
  << << << <<"U+7121","U+6CD5","U+5F9E">>, <<"U+56DE","U+61C9">>, <<"U+63D0","U+53D6">>, <<"S","Q","L">> >>,
        "sql_extraction_failed" >>,
     << << <<"e","x","t","r","a","c","t">>, <<"s","q","l">>, <<"f","a","i","l","e","d">> >>,
        "sql_extraction_failed" >>,
     << << <<"s","y","n","t","a","x">>, <<"e","r","r","o","r">> >>,
        "sql_syntax_error" >>,
     << << <<"n","e","a","r">>, <<"u","n","e","x","p","e","c","t","e","d">> >>,
        "sql_syntax_error" >>,
     << << <<"i","n","v","a","l","i","d">>, <<"s","y","n","t","a","x">> >>,
        "sql_syntax_error" >>,
     << << <<"U+7981","U+6B62">>, <<"U+95DC","U+9375","U+5B57">> >>,
        "sql_security_error" >>,
     << << <<"U+4E0D","U+5141","U+8A31">>, <<"U+64CD","U+4F5C">> >>,
        "sql_security_error" >>,
     << << <<"U+654F","U+611F">>, <<"U+6B04","U+4F4D">> >>,
        "sql_security_error" >>,
     << << <<"n","o"," ","s","u","c","h"," ","t","a","b","l","e">> >>,
        "database_error" >>,
     << << <<"n","o"," ","s","u","c","h"," ","c","o","l","u","m","n">> >>,
        "database_error" >>,
     << << <<"d","a","t","a","b","a","s","e">>, <<"l","o","c","k">> >>,
        "database_error" >>,
     << << <<"c","o","n","n","e","c","t","i","o","n">>, <<"r","e","f","u","s","e","d">> >>,
        "llm_connection_error" >>,
     << << <<"t","i","m","e","o","u","t">>, <<"c","o","n","n","e","c","t">> >>,
        "llm_connection_error" >>,
     << << <<"o","l","l","a","m","a">>, <<"n","o","t">>, <<"r","e","s","p","o","n","d">> >>,
        "llm_connection_error" >>,
     << << <<"j","s","o","n">>, <<"d","e","c","o","d","e">>, <<"e","r","r","o","r">> >>,
        "llm_response_error" >>,
     << << <<"i","n","v","a","l","i","d">>, <<"r","e","s","p","o","n","s","e">>, <<"f","o","r","m","a","t">> >>,
        "llm_response_error" >>,
     << << <<"e","m","p","t","y">>, <<"r","e","s","p","o","n","s","e">> >>,
        "llm_response_error" >> >>

\* ErrorCategory
ErrorCategory ==
  { "sql_extraction_failed", "sql_syntax_error", "sql_security_error", "database_error",
    "llm_connection_error", "llm_response_error", "validation_error", "timeout_error",
    "unknown_error" }

\* the categories categorize_error takes as retryable
retryable_categories ==
  {"sql_extraction_failed", "llm_connection_error", "llm_response_error", "timeout_error"}

\* RetryStrategy.retry_on_categories
retry_on_categories ==
  {"sql_extraction_failed", "llm_connection_error", "llm_response_error", "timeout_error"}

\* RetryStrategy.base_delay and max_delay, in milliseconds
base_delay == 1000
max_delay == 30000

\* RetryStrategy.exponential_base
exponential_base == 2

\* the largest RetryStrategy.max_attempts of the model (the default is 3)
MaxAttempts == 3

\* the draws of random.uniform(0.0, 0.1 * delay) in twentieths of the delay: the
\* least and the largest
JitterDraws == {0, 2}

RECURSIVE PartsFrom(_, _, _, _)
\* the parts from the k-th on occur in u from index i on, in this order and
\* with no line break between one and the next ("." takes no "\n")
PartsFrom(parts, k, u, i) ==
  IF k > Len(parts) THEN TRUE
  ELSE \E p \in i..(Len(u) + 1 - Len(parts[k])) :
         /\ MatchAt(u, p, Upper(parts[k]))
         /\ k = 1 \/ \A j \in i..(p - 1) : u[j] # "\n"
         /\ PartsFrom(parts, k + 1, u, p + Len(parts[k]))

\* re.search(pattern, error_message, re.IGNORECASE)
PatternSearch(parts, error_message) == PartsFrom(parts, 1, Upper(error_message), 1)

\* SmartErrorHandler.fix_suggestions.get(category, [...]): four texts for six
\* of the categories, one default text for the others; a text is named by its
\* list and its place in it
fix_suggestions(category) ==
  IF category \in { "sql_extraction_failed", "sql_syntax_error", "sql_security_error",
                    "database_error", "llm_connection_error", "llm_response_error" }
    THEN [n \in 1..4 |-> <<category, n>>]
  ELSE << <<"default", 1>> >>

\* ErrorInfo
ErrorInfo(category, message) ==
  [category |-> category, message |-> message,
   is_retryable |-> category \in retryable_categories,
   suggested_fixes |-> fix_suggestions(category)]

\* SmartErrorHandler.categorize_error
categorize_error(error_message) ==
  With({k \in 1..Len(error_patterns) : PatternSearch(error_patterns[k][1], error_message)},
       LAMBDA hits : ErrorInfo(IF hits = {} THEN "unknown_error"
                               ELSE error_patterns[SetMin(hits)][2],
                               error_message))

RECURSIVE Power(_, _)
Power(b, n) == IF n = 0 THEN 1 ELSE b * Power(b, n - 1)

\* SmartRetryManager._calculate_delay, in milliseconds, draw being the draw of
\* the jitter
calculate_delay(attempt, draw) ==
  With(IF base_delay * Power(exponential_base, attempt) < max_delay
         THEN base_delay * Power(exponential_base, attempt) ELSE max_delay,
       LAMBDA delay : delay + (delay * draw) \div 20)

\* A RetryStrategy is any three floats and a flag: the dataclass checks nothing.
\* Its numbers are modelled as exact fractions [num, den] with den > 0, which
\* the floats of the modelled strategies and of their delays are.
Frac(num, den) == [num |-> num, den |-> den]

FracLeq(a, b) == a.num * b.den <= b.num * a.den

FracMul(a, b) == Frac(a.num * b.num, a.den * b.den)

FracAdd(a, b) == Frac(a.num * b.den + b.num * a.den, a.den * b.den)

FracPower(b, n) == Frac(Power(b.num, n), Power(b.den, n))

\* min(a, b) of Python: b only if b < a
FracMin(a, b) == IF FracLeq(a, b) THEN a ELSE b

\* the number of attempt indices of the model, counted from 0
MaxBackoffAttempts == 4

\* the strategies of the model, delays in seconds; the default is
\* base_delay 1.0, max_delay 30.0, exponential_base 2.0, jitter on
Strategies ==
  [base_delay : {Frac(0 - 1, 1), Frac(0, 1), Frac(1, 2), Frac(1, 1)},
   max_delay : {Frac(1, 1), Frac(4, 1), Frac(30, 1)},
   exponential_base : {Frac(1, 2), Frac(1, 1), Frac(3, 2), Frac(2, 1)},
   jitter : BOOLEAN]

\* _calculate_delay without `delay = min(delay, self.strategy.max_delay)`
backoff_delay_Uncapped(strategy, attempt) ==
  FracMul(strategy.base_delay, FracPower(strategy.exponential_base, attempt))

\* SmartRetryManager._calculate_delay up to the jitter:
\* min(base_delay * exponential_base ** attempt, max_delay)
backoff_delay(strategy, attempt) ==
  FracMin(FracMul(strategy.base_delay, FracPower(strategy.exponential_base, attempt)),
          strategy.max_delay)

\* SmartRetryManager._calculate_delay under a strategy: the delay plus, if the
\* strategy has jitter, the draw of random.uniform(0.0, 0.1 * delay)
calculate_delay_under(strategy, attempt, draw) ==
  IF strategy.jitter
    THEN FracAdd(backoff_delay(strategy, attempt),
                 FracMul(backoff_delay(strategy, attempt), Frac(draw, 20)))
  ELSE backoff_delay(strategy, attempt)

\* no delay has been computed
NoBackoff(strategy) == [strategy |-> strategy, delays |-> << >>, returned |-> << >>]

BackoffIdle ==
  backoff = NoBackoff([base_delay |-> Frac(1, 1), max_delay |-> Frac(30, 1),
                       exponential_base |-> Frac(2, 1), jitter |-> TRUE])

\* SmartRetryManager(strategy)
BackoffInit == \E strategy \in Strategies : backoff = NoBackoff(strategy)

\* _calculate_delay(attempt) for the next attempt index; delays keeps the delay
\* before the jitter, returned what the call returns
CalculateDelay ==
  /\ Len(backoff.delays) < MaxBackoffAttempts
  /\ \E draw \in JitterDraws :
       backoff' = [backoff EXCEPT
                     !.delays = Append(@, backoff_delay(backoff.strategy, Len(backoff.delays))),
                     !.returned = Append(@, calculate_delay_under(backoff.strategy,
                                                                  Len(backoff.delays), draw))]
  /\ UNCHANGED retry

\* SmartRetryManager.create_retry_context
create_retry_context ==
  [attempt_count |-> 0, previous_errors |-> << >>, improvements |-> << >>]

\* the errors the operation of the model raises: those of _execute_single_query
\* and two of a generator that answers with nothing usable
OperationErrors ==
  { MSG_extraction_failed \o MSG_no_sql,
    MSG_llm_connection \o ERR_connection_refused,
    MSG_llm_connection \o ERR_read_timeout,
    MSG_llm_call \o MSG_llm_empty,
    ERR_empty_response,
    MSG_unsafe_prefix \o MSG_forbidden_keyword \o S_DROP,
    MSG_unsafe_prefix \o MSG_sensitive \o S_mpersonid,
    MSG_db_failed \o MSG_processing_failed \o ERR_no_such_table,
    MSG_db_failed \o MSG_processing_failed \o ERR_syntax }

\* the errors _execute_single_query raises on the generator's answers of the
\* model
SingleQueryErrors ==
  { MSG_llm_connection \o ERR_connection_refused,
    MSG_llm_connection \o ERR_read_timeout,
    MSG_llm_connection \o ERR_expecting_value,
    MSG_llm_json \o ERR_expecting_value,
    MSG_llm_call \o MSG_api_status \o S_status_500,
    MSG_llm_call \o MSG_llm_empty,
    MSG_extraction_failed \o MSG_no_sql,
    MSG_unsafe_prefix \o MSG_forbidden_keyword \o S_SCRIPT }
  \cup { MSG_db_failed \o MSG_processing_failed \o MSG_pandas_prefix \o sql \o MSG_pandas_sep
           \o ERR_no_such_table :
           sql \in { Words(<<S_SELECT, S_STAR, S_FROM, S_CO01M>>),
                     Words(<<S_SELECT, S_STAR, S_FROM, S_CO01M>>) \o <<" ">> \o FENCE,
                     Words(<<S_SELECT, S_mname, S_FROM, S_CO01M, S_WHERE, S_kcstmr, S_EQ,
                             S_QUOTED_ONE, S_LIMIT, S_TEN>>) } }

\* categorize_error tabulated over these errors
CategorizedError == [m \in OperationErrors \cup SingleQueryErrors |-> categorize_error(m)]

\* categorize_error(error_message), read from the table where it holds it
categorized(error_message) ==
  IF error_message \in DOMAIN CategorizedError THEN CategorizedError[error_message]
  ELSE categorize_error(error_message)

CategoryOf == [m \in DOMAIN CategorizedError |-> CategorizedError[m].category]

\* execute_with_retry before its loop: last_error is None, no call of the
\* operation and no sleep has been made
StartRetry(max_attempts) ==
  [pc |-> "loop", max_attempts |-> max_attempts, attempt |-> 0,
   context |-> create_retry_context, last_error |-> Returned,
   calls |-> 0, delays |-> << >>, outcome |-> "none", trace |-> << >>]

\* no execute_with_retry is under way
NoRetry == [StartRetry(0) EXCEPT !.pc = "idle"]

\* no error ends the loop early
not_retryable_Never(error_info) == FALSE

\* the test before `break` for an error that is not to be retried
\* (smart_retry.py:289)
not_retryable(error_info) ==
  ~error_info.is_retryable \/ error_info.category \notin retry_on_categories

\* the error is not recorded
record_error_Skip(context, message) == context

\* context.previous_errors.append(str(e)) (smart_retry.py:285)
record_error(context, message) ==
  [context EXCEPT !.previous_errors = Append(@, message)]

\* the except clause of execute_with_retry for the attempt of r that raised
\* str(e) = message, with `raise last_error` where the loop ends
retry_except(r, message, error_info) ==
  With([r EXCEPT !.last_error = Raised(message),
                 !.context = record_error(@, message)],
       LAMBDA r2 :
         IF not_retryable(error_info) \/ r.attempt = r.max_attempts - 1
           THEN [r2 EXCEPT !.pc = "done", !.outcome = "raised"]
         ELSE [r2 EXCEPT !.context.improvements = @ \o error_info.suggested_fixes,
                         !.attempt = @ + 1])

\* the count is left at the index of the attempt
attempt_count_Stale(attempt) == attempt

\* context.attempt_count = attempt + 1 (smart_retry.py:263)
attempt_count(attempt) == attempt + 1

\* one iteration of the loop of execute_with_retry: result is what the operation
\* does when called, draw the draw of the jitter
retry_iteration(r, result, draw) ==
  With([r EXCEPT !.context.attempt_count = attempt_count(r.attempt),
                 !.delays = IF r.attempt > 0
                              THEN Append(@, calculate_delay(r.attempt, draw)) ELSE @,
                 !.calls = @ + 1],
       LAMBDA r1 :
         IF ~result.raised THEN [r1 EXCEPT !.pc = "done", !.outcome = "returned"]
         ELSE retry_except(r1, result.message, categorized(result.message)))

RetryInit == \E m \in 1..MaxAttempts : retry = StartRetry(m)

\* the next iteration of the loop of execute_with_retry, with the call of the
\* operation it makes
RetryAttempt ==
  /\ retry.pc = "loop"
  /\ retry.attempt < retry.max_attempts
  /\ \E result \in {Returned} \cup {Raised(m) : m \in OperationErrors},
        draw \in (IF retry.attempt > 0 THEN JitterDraws ELSE {0}) :
       retry' = [retry_iteration(retry, result, draw) EXCEPT
                   !.trace = Append(retry.trace, result)]
  /\ UNCHANGED backoff

----------------------------------------------------------------------------
(* Pipeline: process_query of llm_agent_v2.py, which runs                    *)
(* _execute_single_query under the default retry manager.                    *)

\* RetryStrategy.max_attempts of default_retry_manager
default_max_attempts == 3

\* the number of process_query calls of the model
MaxQueries == 2

\* what storage answers to a statement of the pipeline in the model: the
\* largest number of rows, or an error
PipelineStorageOutcomes ==
  {out \in StorageOutcomes : IF out.ok THEN out.rows = MaxStorageRows
                                        ELSE out.err = ERR_no_such_table}

\* the callers of process_query in the model; "anonymous" is the default user_id
PipelineUsers == {"anonymous", "alice"}

\* the days datetime.now() falls on: a day may end between two attempts
Dates == {"today", "tomorrow"}

\* the days that are not before day d
DatesFrom(d) == IF d = "today" THEN Dates ELSE {"tomorrow"}

\* the arguments of the running process_query call; the n-th user_query of a run
\* is named by n
Arguments(n, user_id) == [user_query |-> <<"user_query", n>>, user_id |-> user_id]

NoArguments == [user_query |-> << >>, user_id |-> ""]

\* gemma3_prompts.generate_user_prompt(user_query, context): the query, the note
\* on the previous error if the context holds one, and the date of the day
generate_user_prompt(user_query, context, current_date) ==
  [user_query |-> user_query,
   previous_error |-> IF "previous_error" \in DOMAIN context THEN context.previous_error
                      ELSE "None",
   current_date |-> current_date]

\* the prompts _execute_single_query builds: generate_system_prompt() and
\* generate_user_prompt(user_query), called without a context
single_query_prompts(user_query, current_date) ==
  [system_prompt |-> "generate_system_prompt",
   user_prompt |-> generate_user_prompt(user_query, << >>, current_date)]

\* EnhancedQueryResult, as far as process_query fills it
NoResult ==
  [returned |-> FALSE, success |-> FALSE, sql_query |-> << >>, result_count |-> 0,
   error_message |-> << >>, error_type |-> "None", attempt_count |-> 0]

\* LLMQueryAgent.__init__, no call made yet
NoQueryAgent ==
  [stats |-> [total_queries |-> 0, successful_queries |-> 0, failed_queries |-> 0],
   enhanced |-> [called |-> FALSE, sql |-> << >>,
                 result |-> [raised |-> FALSE, message |-> << >>, sql |-> << >>]],
   result |-> [returned |-> FALSE, success |-> FALSE, sql_query |-> << >>, result_count |-> 0,
               sensitive |-> FALSE, error_message |-> << >>]]

\* ModernLLMQueryAgent.__init__, and LLMQueryAgent.__init__
AgentInit ==
  /\ agent = [stats |-> [total_queries |-> 0, successful_queries |-> 0, failed_queries |-> 0,
                         total_retries |-> 0],
              call |-> NoArguments, current_date |-> "today",
              attempts |-> << >>, result |-> NoResult]
  /\ queryAgent = NoQueryAgent

\* process_query after execute_with_retry has returned or raised (r.pc = "done"),
\* a being the last call of _execute_single_query
\* type(e).__name__ of the error execute_with_retry raises: the errors of
\* _execute_single_query are raised as Exception
TypeName(error) == "Exception"

process_query_end(ag, a, r) ==
  IF r.outcome = "returned"
    THEN [ag EXCEPT !.stats.successful_queries = @ + 1,
                    !.stats.total_retries = @ + r.context.attempt_count - 1,
                    !.call = NoArguments,
                    !.result = [returned |-> TRUE, success |-> TRUE,
                                sql_query |-> a.extraction.sql_query,
                                result_count |-> a.gateway.call.rows,
                                error_message |-> << >>, error_type |-> "None",
                                attempt_count |-> r.context.attempt_count]]
  ELSE [ag EXCEPT !.stats.failed_queries = @ + 1,
                  !.call = NoArguments,
                  !.result = [returned |-> TRUE, success |-> FALSE, sql_query |-> << >>,
                              result_count |-> 0,
                              error_message |-> r.last_error.message,
                              error_type |-> TypeName(r.last_error),
                              attempt_count |-> r.context.attempt_count]]

\* process_query after an attempt: a, with the prompts it was made with, is
\* the latest call of _execute_single_query, r the state of execute_with_retry
attempt_made(ag, a, r) ==
  IF r.pc = "done" THEN process_query_end([ag EXCEPT !.attempts = Append(@, a)], a, r)
  ELSE [ag EXCEPT !.attempts = Append(@, a)]

\* process_query is called: it counts the query and enters execute_with_retry
\* with a new context
ProcessQuery ==
  /\ retry.pc \in {"idle", "done"}
  /\ agent.stats.total_queries < MaxQueries
  /\ \E user_id \in PipelineUsers :
       agent' = [agent EXCEPT !.stats.total_queries = @ + 1,
                              !.call = Arguments(agent.stats.total_queries + 1, user_id),
                              !.attempts = << >>, !.result = NoResult]
  /\ retry' = StartRetry(default_max_attempts)
  /\ UNCHANGED <<backoff, queryAgent, gatewayVars, validatorVars, extractorVars>>

\* the next attempt of process_query: one iteration of execute_with_retry with
\* its call of _execute_single_query, and the end of process_query if it is the
\* last one
ProcessQueryAttempt ==
  /\ retry.pc = "loop"
  /\ retry.attempt < retry.max_attempts
  /\ \E g \in GeneratorOutcomes, out \in PipelineStorageOutcomes,
        draw \in (IF retry.attempt > 0 THEN JitterDraws ELSE {0}),
        current_date \in DatesFrom(agent.current_date) :
       \E a \in {execute_single_query(g, out, fkOrder, query_cache, stats, query_log)} :
         \E r \in {retry_iteration(retry, a.result, draw)} :
           /\ retry' = [r EXCEPT !.trace = Append(retry.trace, a.result)]
           /\ query_cache' = a.gateway.cache
           /\ stats' = a.gateway.stats
           /\ query_log' = a.gateway.log
           /\ lastCall' = IF a.gateway.call = NoCall THEN lastCall ELSE a.gateway.call
           /\ agent' = attempt_made([agent EXCEPT !.current_date = current_date],
                                    single_query_prompts(agent.call.user_query, current_date)
                                      @@ a, r)
  /\ UNCHANGED <<ncalls, threads, stored, backoff, queryAgent, validatorVars, extractorVars>>

----------------------------------------------------------------------------
(* The first agent: process_query of llm_agent.py. One call extracts the     *)
(* statement from the generator's response, validates and enhances it and   *)
(* hands it to the gateway.                                                 *)

\* what the generator does in a call of the first agent
QueryAgentOutcomes ==
  {Answer(r) : r \in QueryAgentResponses} \cup {RequestException(ERR_connection_refused)}

\* what storage answers to a statement of the first agent in the model: no row,
\* the largest number of rows, or an error
QueryAgentStorageOutcomes ==
  {out \in StorageOutcomes : IF out.ok THEN out.rows \in {0, MaxStorageRows}
                                        ELSE out.err = ERR_no_such_table}

\* the records storage gives for the statement have the column mpersonid: it is
\* named in the statement, or the statement selects every column of CO01M, the
\* table that has it (db_manager.py:176). A stored patient has an id number.
selects_mpersonid(sql) ==
  \/ Contains(Upper(sql), Upper(S_mpersonid))
  \/ Contains(sql, S_STAR) /\ Contains(Upper(sql), S_CO01M)

\* QueryResult(success=False, sql_query="", error_message=str(e))
QueryFailed(error_message) ==
  [returned |-> TRUE, success |-> FALSE, sql_query |-> << >>, result_count |-> 0,
   sensitive |-> FALSE, error_message |-> error_message]

\* QueryResult(success=True, sql_query=validated_sql, results=results, ...) for
\* df_result.to_dict('records') of rows records
QuerySucceeded(validated_sql, rows) ==
  [returned |-> TRUE, success |-> TRUE, sql_query |-> validated_sql, result_count |-> rows,
   sensitive |-> rows > 0 /\ selects_mpersonid(validated_sql), error_message |-> << >>]

\* process_query up to the call of the gateway: _call_llm,
\* _extract_sql_from_response and _validate_and_enhance_sql
prepare_query(g) ==
  IF g.kind = "answer" THEN PreparedSql[g.text]
  ELSE [raised |-> TRUE, message |-> MSG_llm_unreachable \o g.text, sql |-> << >>]

\* the end of process_query: the counters and the QueryResult
query_agent_end(qa, result) ==
  [qa EXCEPT !.stats.total_queries = @ + 1,
             !.stats.successful_queries = IF result.success THEN @ + 1 ELSE @,
             !.stats.failed_queries = IF result.success THEN @ ELSE @ + 1,
             !.result = result]

\* a caller runs LLMQueryAgent.process_query(user_query, user_id)
QueryAgentProcessQuery ==
  /\ queryAgent.stats.total_queries < MaxQueries
  /\ \E user_id \in PipelineUsers, g \in QueryAgentOutcomes, out \in QueryAgentStorageOutcomes :
       \E prepared \in {prepare_query(g)} :
         IF prepared.raised
           THEN /\ queryAgent' = query_agent_end(queryAgent, QueryFailed(prepared.message))
                /\ UNCHANGED <<query_cache, stats, query_log, lastCall>>
         ELSE \E r \in {execute_query(prepared.sql, user_id, out, query_cache, stats, query_log)} :
                /\ query_cache' = r.cache
                /\ stats' = r.stats
                /\ query_log' = r.log
                /\ lastCall' = r.call
                /\ queryAgent' =
                     query_agent_end(queryAgent,
                                     IF r.call.raised # "none" THEN QueryFailed(r.call.message)
                                     ELSE QuerySucceeded(prepared.sql, r.call.rows))
  /\ UNCHANGED <<agent, ncalls, threads, stored>>

\* a caller runs LLMQueryAgent._validate_and_enhance_sql(sql)
ValidateAndEnhanceSql ==
  /\ \E sql \in EnhanceSqls :
       queryAgent' = [queryAgent EXCEPT
                        !.enhanced = [called |-> TRUE, sql |-> sql, result |-> EnhancedSql[sql]]]
  /\ UNCHANGED <<agent, gatewayVars>>

----------------------------------------------------------------------------
(* Specifications: one per component, each leaving the others idle *)

GatewayIdle == GatewayInit /\ ncalls = 0 /\ ThreadsInit /\ stored = 0

ValidatorIdle == fkOrder = << >> /\ validation = NoValidation

ExtractorIdle == extraction = NoExtraction

RetryIdle == retry = NoRetry /\ BackoffIdle

\* the Execution Gateway under direct callers
InitGateway == GatewayIdle /\ ValidatorIdle /\ ExtractorIdle /\ RetryIdle /\ AgentInit

NextGateway ==
  ExecuteQuery /\ UNCHANGED <<validatorVars, extractorVars, retryVars, agentVars>>

SpecGateway == InitGateway /\ [][NextGateway]_vars

\* the Execution Gateway under concurrent callers
NextConcurrent ==
  /\ \E t \in Threads :
       \/ ThreadCall(t)
       \/ ThreadCacheLookup(t)
       \/ ThreadReadStorage(t)
       \/ ThreadCacheCheck(t)
       \/ ThreadCacheStore(t)
       \/ ThreadLoadCounter(t)
       \/ ThreadStoreCounter(t)
       \/ ThreadLogQuery(t)
  /\ UNCHANGED <<validatorVars, extractorVars, retryVars, agentVars>>

SpecConcurrent == InitGateway /\ [][NextConcurrent]_vars

\* the Execution Gateway while data is imported
NextImport ==
  /\ ExecuteStoredQuery \/ ImportDbfData \/ ClearCache
  /\ UNCHANGED <<validatorVars, extractorVars, retryVars, agentVars>>

SpecImport == InitGateway /\ [][NextImport]_vars

\* the Security Validator under direct callers
InitValidate == ValidatorInit /\ GatewayIdle /\ ExtractorIdle /\ RetryIdle /\ AgentInit

NextValidate ==
  ValidateSql /\ UNCHANGED <<gatewayVars, extractorVars, retryVars, agentVars>>

SpecValidate == InitValidate /\ [][NextValidate]_vars

\* the Extraction Engine under direct callers
InitExtract == ExtractorIdle /\ GatewayIdle /\ ValidatorIdle /\ RetryIdle /\ AgentInit

NextExtract ==
  ExtractSql /\ UNCHANGED <<gatewayVars, validatorVars, retryVars, agentVars>>

SpecExtract == InitExtract /\ [][NextExtract]_vars

\* the Retry Orchestrator around an operation that returns or raises as it
\* likes. The loop is sequential code: an attempt that can be made is made,
\* the operation and the sleep before it taking finite time.
InitRetry == RetryInit /\ BackoffIdle /\ GatewayIdle /\ ValidatorIdle /\ ExtractorIdle /\ AgentInit

NextRetry ==
  RetryAttempt /\ UNCHANGED <<gatewayVars, validatorVars, extractorVars, agentVars>>

SpecRetry == InitRetry /\ [][NextRetry]_vars /\ WF_vars(NextRetry)

\* _calculate_delay under any strategy, for the attempt indices in turn
InitBackoff ==
  BackoffInit /\ retry = NoRetry /\ GatewayIdle /\ ValidatorIdle /\ ExtractorIdle /\ AgentInit

NextBackoff ==
  CalculateDelay /\ UNCHANGED <<gatewayVars, validatorVars, extractorVars, agentVars>>

SpecBackoff == InitBackoff /\ [][NextBackoff]_vars

\* the first agent under callers of process_query and of _validate_and_enhance_sql
NextQueryAgent ==
  /\ QueryAgentProcessQuery \/ ValidateAndEnhanceSql
  /\ UNCHANGED <<validatorVars, extractorVars, retryVars>>

SpecQueryAgent == InitGateway /\ [][NextQueryAgent]_vars

\* the pipeline: process_query calls, one after the other, on one agent, one
\* validator and one gateway
InitPipeline == AgentInit /\ RetryIdle /\ GatewayIdle /\ ValidatorInit /\ ExtractorIdle

NextPipeline == ProcessQuery \/ ProcessQueryAttempt

SpecPipeline == InitPipeline /\ [][NextPipeline]_vars

----------------------------------------------------------------------------
(* Claims *)

\* C1: execute_query dispatches a statement to storage only if the statement,
\* trimmed and upper-cased, starts with SELECT and contains none of the gateway's
\* dangerous keywords; any other statement raises DatabaseError right after the
\* check, before the cache lookup and before storage is touched.
C1_Keywords ==
  { S_DROP, S_DELETE, S_UPDATE, S_INSERT, S_ALTER, S_CREATE, S_TRUNCATE, S_EXEC,
    S_EXECUTE, S_UNION, S_DASHDASH, S_COMMENT_OPEN, S_COMMENT_CLOSE }

C1_Eligible(sql) ==
  LET t == Upper(Strip(sql))
  IN  StartsWith(t, S_SELECT) /\ \A kw \in C1_Keywords : ~Contains(t, kw)


C2_IsTableKeyword(t) ==
  /\ t.ttype = "Keyword"
  /\ \/ Upper(t.value) = S_FROM
     \/ Contains(Upper(t.value), S_JOIN)

\* the tables a statement text references after FROM and JOIN
C2_ReferencedTables(sql) ==
  LET t == Lex(sql)
  IN  {t[k].value : k \in {j \in 1..Len(t) :
         /\ t[j].ttype = "Name"
         /\ \E p \in 1..(j - 1) : C2_IsTableKeyword(t[p]) /\ NextToken(t, p) = j}}

\* C2: whenever validate_sql returns is_safe = true, every table the statement
\* references in its FROM clause, joined tables included, is one of the four
\* whitelisted tables (case-insensitive); a statement that references any other
\* table is reported unsafe.
C2_SafeOnlyWhitelistedTables ==
  (validation.called /\ validation.result.is_safe) =>
    \A t \in C2_ReferencedTables(validation.sql) : Upper(t) \in allowed_tables

\* the names in the selected-items clause of a statement text
C3_SelectedFields(sql) ==
  LET t == Lex(sql)
      selects == {k \in 1..Len(t) : t[k].ttype = "Keyword.DML" /\ Upper(t[k].value) = S_SELECT}
      froms == {k \in 1..Len(t) : IsKeywordToken(t[k], S_FROM) /\ k > SetMin(selects)}
      last == IF froms = {} THEN Len(t) ELSE SetMin(froms)
  IN  IF selects = {} THEN {}
      ELSE {t[k].value : k \in {j \in SetMin(selects)..last : t[j].ttype = "Name"}}

\* C3: for a statement whose selected-items clause names mpersonid or maddr,
\* validate_sql returns is_safe = false with error_type sensitive_data_access
\* and a message that names the field.
C3_SensitiveFieldRejected ==
  validation.called =>
    \A f \in C3_SelectedFields(validation.sql) :
      Lower(f) \in sensitive_fields =>
        /\ ~validation.result.is_safe
        /\ validation.result.error_type = "sensitive_data_access"
        /\ Contains(validation.result.error_message, f)

\* the indexes of the statement terminators of a text
C4_Terminators(sql) ==
  LET t == Lex(sql)
  IN  {k \in 1..Len(t) : t[k].ttype = "Punctuation" /\ t[k].value = S_SEMI}

\* a text with something other than blanks after a statement terminator
C4_FurtherStatement(sql) ==
  \E k \in C4_Terminators(sql) : NextToken(Lex(sql), k) # 0

\* C4: whenever validate_sql returns is_safe = true the validated text holds
\* exactly one statement: it has at most one statement terminator and nothing
\* but blanks after it.
C4_SafeIsSingleStatement ==
  (validation.called /\ validation.result.is_safe) =>
    /\ Cardinality(C4_Terminators(validation.sql)) <= 1
    /\ ~C4_FurtherStatement(validation.sql)

\* the write and DDL keywords of the extraction contract
C7_WriteKeywords == {S_DROP, S_DELETE, S_UPDATE, S_INSERT, S_ALTER, S_CREATE, S_TRUNCATE}

C7_ReadOnly(sql) ==
  /\ StartsWith(Upper(sql), S_SELECT)
  /\ \A kw \in C7_WriteKeywords : ~Contains(Upper(sql), kw)

\* C7: every successful result of an extraction strategy, and so the result of
\* extract_sql, has an sql_query that starts with SELECT in either case and
\* contains none of DROP, DELETE, UPDATE, INSERT, ALTER, CREATE, TRUNCATE.
C7_ExtractedIsReadOnly ==
  /\ extraction.result.success => C7_ReadOnly(extraction.result.sql_query)
  /\ \A k \in 1..Len(extraction.tried) :
       extraction.tried[k].success => C7_ReadOnly(extraction.tried[k].sql_query)

\* a response that carries DROP from which a statement is extracted all the same
C7_Witness ==
  /\ extraction.called
  /\ extraction.result.success
  /\ Contains(Upper(extraction.response), S_DROP)
  /\ Len(extraction.tried) >= 3

\* C8: extract_sql accepts a candidate, whichever strategy produced it, only if
\* the returned sql_query is non-empty, at least 10 characters long and contains
\* the FROM keyword.
C8_AcceptedHasFrom ==
  (extraction.called /\ extraction.result.success) =>
    /\ extraction.result.sql_query # << >>
    /\ Len(extraction.result.sql_query) >= 10
    /\ Contains(Upper(extraction.result.sql_query), S_FROM)


\* C9: whatever the attempts do, execute_with_retry ends and calls the operation
\* at most max_attempts times; when every attempt fails with a retryable error
\* it calls it exactly max_attempts times and then raises the last error, with
\* context.attempt_count = max_attempts and previous_errors holding the errors
\* of the failed attempts, one each, in their order.
C9_Retryable(result) ==
  /\ result.raised
  /\ CategoryOf[result.message] \in
       {"sql_extraction_failed", "llm_connection_error", "llm_response_error", "timeout_error"}

C9_AtMostMaxAttempts ==
  /\ retry.calls = Len(retry.trace)
  /\ retry.calls <= retry.max_attempts
  /\ (retry.pc = "done" /\ \A k \in 1..Len(retry.trace) : C9_Retryable(retry.trace[k])) =>
       /\ retry.calls = retry.max_attempts
       /\ retry.outcome = "raised"
       /\ retry.last_error = retry.trace[Len(retry.trace)]
       /\ retry.context.attempt_count = retry.max_attempts
       /\ retry.context.previous_errors =
            [k \in 1..Len(retry.trace) |-> retry.trace[k].message]

C9_RetryTerminates == []C9_AtMostMaxAttempts /\ <>(retry.pc = "done")

\* three attempts of three fail with retryable errors of two kinds
C9_Witness ==
  /\ retry.pc = "done"
  /\ retry.max_attempts = 3
  /\ retry.calls = 3
  /\ \A k \in 1..3 : C9_Retryable(retry.trace[k])
  /\ retry.trace[1] # retry.trace[3]

\* C10: when attempt k fails with an error classified as a syntax error, a
\* policy violation, a storage error or unknown, no attempt k + 1 is started and
\* no backoff delay follows: the error is raised at once with
\* context.attempt_count = k, whatever is left of the attempt budget.
C10_Fatal(result) ==
  /\ result.raised
  /\ CategoryOf[result.message] \in
       {"sql_syntax_error", "sql_security_error", "database_error", "unknown_error"}

C10_FatalErrorEndsRetry ==
  \A k \in 1..Len(retry.trace) :
    C10_Fatal(retry.trace[k]) =>
      /\ Len(retry.trace) = k
      /\ retry.calls = k
      /\ retry.pc = "done"
      /\ retry.outcome = "raised"
      /\ retry.last_error = retry.trace[k]
      /\ retry.context.attempt_count = k
      /\ Len(retry.delays) = k - 1

\* the second attempt of three fails with a policy violation: one delay, no third attempt
C10_Witness ==
  /\ retry.max_attempts = 3
  /\ Len(retry.trace) = 2
  /\ C10_Fatal(retry.trace[2])
  /\ CategoryOf[retry.trace[2].message] = "sql_security_error"
  /\ retry.pc = "done"
  /\ Len(retry.delays) = 1

\* the attempt this step of process_query has made, if it has made one
AttemptMade == Len(agent'.attempts) = Len(agent.attempts) + 1

LastAttempt == agent.attempts[Len(agent.attempts)]

\* the answers of the model that hold a write statement, then a read-only one
WriteThenReadAnswers ==
  { Answer(Words(<<S_DROP, S_TABLE, S_CO01M>>) \o <<";", " ">>
             \o Words(<<S_SELECT, S_STAR, S_FROM, S_CO01M>>)),
    Answer(FENCE \o Lower(S_SQL) \o <<"\n">> \o Words(<<S_DROP, S_TABLE, S_CO01M>>)
             \o <<";", " ">> \o Words(<<S_SELECT, S_STAR, S_FROM, S_CO01M>>) \o <<"\n">>
             \o FENCE) }

\* C5: when the generator answers with a write statement followed by a
\* read-only one, bare or in a fenced block, the attempt fails, nothing of the
\* answer is dispatched to storage, the audit log is left as it was, and
\* process_query, if it returns on this attempt, returns failure.
C5_WriteThenReadFails ==
  [][(AttemptMade /\ LastAttempt'.llm \in WriteThenReadAnswers) =>
       /\ LastAttempt'.result.raised
       /\ "storage" \notin Range(LastAttempt'.gateway.call.events)
       /\ query_log' = query_log
       /\ agent'.result.returned => ~agent'.result.success]_vars

\* C6: in every attempt of the pipeline execute_query is called only after
\* extract_sql has succeeded and validate_sql has returned is_safe = true for
\* the very text that is passed on; an attempt whose extraction fails or whose
\* validation is unsafe makes no storage call and writes no audit entry.
C6_GatewayOnlyAfterSafe ==
  [][AttemptMade =>
       /\ LastAttempt'.gateway.call # NoCall =>
            /\ LastAttempt'.extraction.success
            /\ LastAttempt'.validation.called
            /\ LastAttempt'.validation.result.is_safe
            /\ LastAttempt'.validation.sql = LastAttempt'.gateway.call.sql
            /\ LastAttempt'.extraction.sql_query = LastAttempt'.gateway.call.sql
       /\ (~LastAttempt'.extraction.success \/ ~LastAttempt'.validation.result.is_safe) =>
            /\ LastAttempt'.gateway.call = NoCall
            /\ query_log' = query_log
            /\ query_cache' = query_cache
            /\ stats' = stats]_vars

\* an attempt stopped by an unsafe validation, after an earlier one was dispatched
\* to storage and logged
C6_Witness ==
  /\ agent.attempts # << >>
  /\ LastAttempt.steps = <<"llm", "extract", "validate">>
  /\ ~LastAttempt.validation.result.is_safe
  /\ LastAttempt.gateway.call = NoCall
  /\ query_log # << >>

\* C11: when an attempt fails because the call of the generator timed out and
\* attempts are left, the failure is classified as a timeout, which is
\* retryable, and another attempt is started.
C11_TimeoutIsRetried ==
  \A k \in 1..Len(agent.attempts) :
    (agent.attempts[k].llm = RequestException(ERR_read_timeout) /\ k < default_max_attempts) =>
      /\ CategoryOf[agent.attempts[k].result.message] = "timeout_error"
      /\ retry.pc = "loop" \/ Len(agent.attempts) > k

\* what the generator does when its response is malformed: an empty text, a
\* status that is not 200, a body that is not JSON
MalformedResponses ==
  { Answer(<< >>), BadStatus(S_status_500), JSONDecodeError(ERR_expecting_value),
    RequestException(ERR_expecting_value) }

\* C12: when an attempt fails because the generator's response is malformed and
\* attempts are left, the failure is classified as a generator response error,
\* which is retryable, and another attempt is started instead of the error
\* being surfaced.
C12_MalformedIsRetried ==
  \A k \in 1..Len(agent.attempts) :
    (agent.attempts[k].llm \in MalformedResponses /\ k < default_max_attempts) =>
      /\ CategoryOf[agent.attempts[k].result.message] = "llm_response_error"
      /\ retry.pc = "loop" \/ Len(agent.attempts) > k

\* the attempt found no SQL in the generator's text
C13_ExtractionFailed(a) == a.steps = <<"llm", "extract">> /\ ~a.extraction.success

\* the attempt got a statement that was validated, executed and answered
C13_ValidStatement(a) ==
  /\ a.steps = <<"llm", "extract", "validate", "execute">>
  /\ a.gateway.call.raised = "none"

\* C13: if the first k - 1 attempts (2 <= k <= max_attempts) fail because no SQL
\* could be extracted and attempt k yields a valid statement, process_query
\* returns success on attempt k, the retry context has attempt_count = k and
\* holds k - 1 errors, each an extraction failure.
C13_SuccessAfterExtractionFailures ==
  \A k \in 2..default_max_attempts :
    ( /\ Len(agent.attempts) = k
      /\ \A i \in 1..(k - 1) : C13_ExtractionFailed(agent.attempts[i])
      /\ C13_ValidStatement(agent.attempts[k]) ) =>
      /\ agent.result.returned
      /\ agent.result.success
      /\ agent.result.attempt_count = k
      /\ retry.outcome = "returned"
      /\ retry.context.attempt_count = k
      /\ Len(retry.context.previous_errors) = k - 1
      /\ \A i \in 1..(k - 1) :
           /\ retry.context.previous_errors[i] = MSG_extraction_failed \o MSG_no_sql
           /\ CategoryOf[retry.context.previous_errors[i]] = "sql_extraction_failed"

\* two attempts without SQL, then a third one that is answered
C13_Witness ==
  /\ Len(agent.attempts) = 3
  /\ C13_ExtractionFailed(agent.attempts[1])
  /\ C13_ExtractionFailed(agent.attempts[2])
  /\ C13_ValidStatement(agent.attempts[3])
  /\ agent.result.success

\* C14: every retry attempt (the second and later ones) calls the generator with
\* a prompt that carries the outcome of the previous attempt, so that it differs
\* from the prompt of the first attempt.
C14_RetryPromptEnriched ==
  \A k \in 2..Len(agent.attempts) :
    /\ agent.attempts[k].user_prompt.previous_error # "None"
    /\ agent.attempts[k].user_prompt # agent.attempts[1].user_prompt

\* C15: every failed result of process_query carries an error category of the
\* taxonomy, the one the error that ended the request is classified as.
C15_FailureCarriesCategory ==
  (agent.result.returned /\ ~agent.result.success) =>
    /\ agent.result.error_type \in ErrorCategory
    /\ agent.result.error_type = CategoryOf[agent.result.error_message]

\* C17: the audit entry written for a statement executed for
\* process_query(user_query, user_id) records that user_id.
C17_AuditRecordsCaller ==
  [][(AttemptMade /\ Len(query_log') = Len(query_log) + 1) =>
       query_log'[Len(query_log')].user_id = agent.call.user_id]_vars

\* this step is an execute_query call of a direct caller
GatewayCalled == ncalls' = ncalls + 1

\* C16: every execute_query call that dispatches a statement to storage appends
\* exactly one audit entry, whether storage returns rows or raises; an entry,
\* once appended, is never updated or removed by later calls.
C16_DispatchAppendsOneEntry ==
  [][GatewayCalled =>
       /\ "storage" \in Range(lastCall'.events) => Len(query_log') = Len(query_log) + 1
       /\ Len(query_log') >= Len(query_log)
       /\ SubSeq(query_log', 1, Len(query_log)) = query_log]_vars

\* C18: two execute_query calls with the same statement and no change of the
\* stored data in between return the same rows, and the second is answered
\* from the cache without adding to queries_executed.
C18_RepeatIsCacheHit ==
  [][( /\ GatewayCalled
       /\ lastCall.raised = "none"
       /\ "storage" \in Range(lastCall.events)
       /\ lastCall'.sql = lastCall.sql ) =>
       /\ lastCall'.events = <<"validate", "cache_lookup">>
       /\ lastCall'.rows = lastCall.rows
       /\ stats'.queries_executed = stats.queries_executed]_vars

\* C20: when execute_query misses on a cache that is full, the new result is
\* stored and the oldest entry evicted, so that a repeat of the newest statement
\* is a cache hit.
C20_FullCacheTakesNewest ==
  [][( /\ GatewayCalled
       /\ Cardinality(DOMAIN query_cache) = cache_size
       /\ "storage" \in Range(lastCall'.events)
       /\ lastCall'.raised = "none" ) =>
       /\ generate_query_hash(lastCall'.sql) \in DOMAIN query_cache'
       /\ Cardinality(DOMAIN query_cache') = cache_size]_vars

\* C19: in every reachable state, whatever the interleaving of concurrent
\* execute_query calls on one DatabaseManager, the cache holds at most
\* cache_size entries.
C19_CacheBounded == Cardinality(DOMAIN query_cache) <= cache_size

\* C21: every result execute_query returns, freshly executed or served from the
\* cache, has at most max_results rows, whatever number of rows storage produced;
\* so has every result the cache holds.
C21_ResultsCapped ==
  /\ lastCall.raised = "none" => lastCall.rows <= max_results
  /\ \A h \in DOMAIN query_cache : query_cache[h] <= max_results

\* a call answered from the cache returned max_results rows
C21_Witness ==
  /\ lastCall.raised = "none"
  /\ lastCall.events = <<"validate", "cache_lookup">>
  /\ lastCall.rows = max_results

\* every concurrent caller has made its call and the call is over
AllThreadsDone == \A t \in Threads : threads[t].pc = "done"

\* C22: when N execute_query calls for valid statements run concurrently on one
\* DatabaseManager and storage answers each of them, no update of the shared
\* counters is lost: once all have returned, cache_hits + queries_executed = N.
C22_NoLostCounterUpdate ==
  ( /\ AllThreadsDone
    /\ \A t \in Threads : GatewayCheck[threads[t].sql].is_safe /\ threads[t].raised = "none" )
    => stats.cache_hits + stats.queries_executed = NThreads

\* the delays before jitter computed so far grow with the attempt index and none
\* exceeds the strategy's max_delay
BackoffMonotoneAndCapped ==
  /\ \A i, j \in 1..Len(backoff.delays) :
       i < j => FracLeq(backoff.delays[i], backoff.delays[j])
  /\ \A i \in 1..Len(backoff.delays) : FracLeq(backoff.delays[i], backoff.strategy.max_delay)

\* C23 as stated: for any retry strategy and attempt indices i < j, the delay
\* before jitter, min(max_delay, base_delay * exponential_base^n), satisfies
\* delay(i) <= delay(j) and never exceeds max_delay.
C23_BackoffMonotoneAnyStrategy == BackoffMonotoneAndCapped

\* C23, amended: for a retry strategy with exponential_base >= 1 and
\* base_delay >= 0 and attempt indices i < j, the delay before jitter satisfies
\* delay(i) <= delay(j); under any strategy it never exceeds max_delay.
C23_BackoffMonotone ==
  /\ ( /\ FracLeq(Frac(1, 1), backoff.strategy.exponential_base)
       /\ FracLeq(Frac(0, 1), backoff.strategy.base_delay) ) => BackoffMonotoneAndCapped
  /\ \A i \in 1..Len(backoff.delays) : FracLeq(backoff.delays[i], backoff.strategy.max_delay)

\* under base_delay 1, exponential_base 2 and max_delay 4 the delays of the
\* attempt indices 0..3 are 1, 2, 4 and 4 seconds: they grow, then meet the cap
C23_Witness ==
  /\ backoff.strategy.exponential_base = Frac(2, 1)
  /\ backoff.strategy.base_delay = Frac(1, 1)
  /\ backoff.strategy.max_delay = Frac(4, 1)
  /\ Len(backoff.delays) >= 4
  /\ ~FracLeq(backoff.delays[2], backoff.delays[1])
  /\ backoff.delays[4] = backoff.strategy.max_delay

\* C24: for a statement that passes every policy check but has no LIMIT clause
\* or no WHERE clause, validate_sql returns is_valid and is_safe together with a
\* non-empty suggestions list.
C24_MissingClauseIsAdvised ==
  ( /\ validation.called
    /\ validation.result.is_valid /\ validation.result.is_safe
    /\ ~validation.result.parsed_sql.has_limit \/ ~validation.result.parsed_sql.has_where )
    => validation.result.suggestions # << >>

\* the bounds of the LIMIT clauses of a statement: the numbers that follow the
\* word LIMIT
LimitBounds(sql) ==
  { IntOf(LimitDigits(Upper(sql), e, LimitEnd(sql, Upper(sql), e))) :
      e \in {x \in 1..Len(sql) : /\ LimitEnd(sql, Upper(sql), x) > 0
                                 /\ x = 1 \/ ~IsWordChar(sql[x - 1])} }

\* C25: for every statement that starts with SELECT, _validate_and_enhance_sql
\* returns a statement that contains a LIMIT clause and in which no LIMIT bound
\* exceeds 1000; for every statement that does not start with SELECT it raises.
C25_EnhancedIsLimited ==
  queryAgent.enhanced.called =>
    IF StartsWith(Strip(Upper(queryAgent.enhanced.sql)), S_SELECT)
      THEN /\ ~queryAgent.enhanced.result.raised
           /\ LimitBounds(queryAgent.enhanced.result.sql) # {}
           /\ \A n \in LimitBounds(queryAgent.enhanced.result.sql) : n <= 1000
    ELSE queryAgent.enhanced.result.raised

\* C27: for every generator response, LLMQueryAgent.process_query never returns
\* success with a result record that carries a non-null mpersonid value.
C27_NoSensitiveFieldReturned ==
  (queryAgent.result.returned /\ queryAgent.result.success) => ~queryAgent.result.sensitive

\* the statements of direct callers that the gateway's check lets through
ValidGatewaySqls == {sql \in GatewaySqls : GatewayCheck[sql].is_safe}

\* C26: an execute_query call that raises, because the gateway's check rejects
\* the statement or because storage fails, leaves the cache, the usage counters
\* and the audit log unchanged, and any later valid execute_query returns what
\* it would have returned had the failed call not been made.
C26_FailedCallChangesNothing ==
  [][(GatewayCalled /\ lastCall'.raised # "none") =>
       /\ query_cache' = query_cache
       /\ stats' = stats
       /\ query_log' = query_log
       /\ \A sql \in ValidGatewaySqls, out \in {x \in StorageOutcomes : x.rows = MaxStorageRows} :
            execute_query(sql, "system", out, query_cache', stats', query_log').call
              = execute_query(sql, "system", out, query_cache, stats, query_log).call]_vars

\* storage failed a call made after a call that had filled the cache and the log
C26_Witness ==
  /\ lastCall.raised = "DatabaseError"
  /\ "storage" \in Range(lastCall.events)
  /\ DOMAIN query_cache # {}
  /\ query_log # << >>
  /\ stats.queries_executed > 0

C29_NoStaleResultAfterImport ==
  [][(GatewayCalled /\ lastCall'.raised = "none") => lastCall'.rows = LimitResults(stored)]_vars

\* C30: every statement for which validate_sql returns is_safe = true is also
\* accepted by the gateway's own check, _validate_sql_query, so a statement that
\* passed validation is never rejected as unsafe at execution time.
C30_ValidatedPassesGateway ==
  (validation.called /\ validation.result.is_safe) => validate_sql_query(validation.sql).is_safe

====
